---- MODULE Spec2Model ----
(***************************************************************************)
(* A model of the hand-particles engine: the event aggregator              *)
(* (InteractionCore), the plugin scheduler (GestureEngine), the plugins    *)
(* of the repository and the dynamics of the ParticleSystem.               *)
(*                                                                         *)
(* Numbers.  The program computes with IEEE doubles; the model uses        *)
(* fixed point.  Event payloads, zoom, rotation, spread, stillness,        *)
(* shakeEnergy and pinch are integers in units of 1/1000 (1.0 = 1000);     *)
(* panX and panY are integers in units of 1/10000, so that the affine      *)
(* maps (nx - 0.5) * 3.0 and -(ny - 0.5) * 1.9 are exact.                  *)
(***************************************************************************)
EXTENDS Integers, Sequences, FiniteSets, TLC

VARIABLES
    state,      \* InteractionCore.state
    batch,      \* the events argument of the last InteractionCore.update call,
                \* resp. the events GestureEngine.process returned last
    before,     \* InteractionCore.state as it was when that call began
    consumed,   \* number of events handed to InteractionCore.update so far
    registered, \* the plugin names in the order loadPlugins pushed them
    plugins,    \* GestureEngine.plugins: the registry, after the sort
    pstate,     \* the private fields of every plugin instance, by plugin name
    lastCall,   \* the last call on the engine: its name, its arguments, the
                \* plugins it invoked, the emitter of every event it returned
                \* and the plugins' private fields when it began
    ticks,      \* number of process calls so far
    other,      \* a second engine, constructed alike and fed the same frames:
                \* its registry, its plugins' fields, the batch and the
                \* emitters of its last process call
    agree,      \* the plugins whose enabled flag was the same in both
                \* engines at every process call so far
    particles,  \* the fields of the ParticleSystem
    tracker,    \* the fields of the HandTracker
    loop        \* the main loop: the tick it is in and the calls made in it

coreVars == <<state, before, consumed>>
engineVars == <<registered, plugins, pstate, lastCall, ticks>>
pairVars == <<other, agree>>
appVars == <<particles, tracker, loop>>
vars ==
    <<state, batch, before, consumed, registered, plugins, pstate, lastCall, ticks,
      other, agree, particles, tracker, loop>>

\* Total number of events the aggregator is fed in one behaviour.
MaxEvents == 3

\* Largest number of plugin classes loadPlugins finds.
MaxPlugins == 3

\* Number of GestureEngine.process calls in one behaviour.
MaxTicks == 2

\* Number of ShakeScatterPlugin.update calls in one behaviour.
MaxShakeTicks == 4

\* Number of ParticleSystem.applyInteraction calls in one behaviour.
MaxSteps == 3

\* Number of HandTracker.update calls in one behaviour.
MaxTrackerTicks == 2

\* Number of ticks of the main loop in one behaviour of the gesture pipeline.
MaxGestureTicks == 3

\* Number of particles of the ParticleSystem (18000 in ThreeApp).
ParticleCount == 2

\* Number of calls of the run with dt = 0.016 and of the run with dt = 0.1.
FineSteps == 62
CoarseSteps == 10

Range(q) == {q[i] : i \in DOMAIN q}

Min(a, b) == IF a < b THEN a ELSE b
Max(a, b) == IF a > b THEN a ELSE b

(***************************************************************************)
(* ParticleSystem: the dynamics                                            *)
(*                                                                         *)
(* The fields of the ParticleSystem are integers in units of 1/10000, dt   *)
(* is in ms.  The position buffer and the breathing scale, which feed no   *)
(* field back, are left out.                                               *)
(***************************************************************************)

\* The values of dt the model steps the dynamics with, in ms.
DynDts == {0, 16, 100, 1000}

\* Math.pow(c, dt) in 1/10000, c in 1/10000 and dt in ms, for the bases of
\* applyInteraction and updateParticles and the dt the model steps with;
\* for a negative dt the power of a base below 1 is above 1.
pow(c, dt) ==
    CASE dt = 0 -> 10000
      [] dt = -16 ->
            (CASE c = 6 -> 11260 [] c = 8 -> 11209 [] c = 7 -> 11233
               [] c = 10 -> 11169 [] c = 800 -> 10412 [] c = 3500 -> 10169
               [] c = 20 -> 11045)
      [] dt = 16 ->
            (CASE c = 6 -> 8881 [] c = 8 -> 8922 [] c = 7 -> 8903
               [] c = 10 -> 8954 [] c = 800 -> 9604 [] c = 3500 -> 9833
               [] c = 20 -> 9053)
      [] dt = 100 ->
            (CASE c = 6 -> 4762 [] c = 8 -> 4901 [] c = 7 -> 4836
               [] c = 10 -> 5012 [] c = 800 -> 7768 [] c = 3500 -> 9003
               [] c = 20 -> 5372)
      [] dt = 1000 -> c

\* lerp(a, b, t), t in 1/10000.
lerp(a, b, t) == a + ((b - a) * t) \div 10000

\* clamp(v, a, b)
clamp(v, a, b) == Max(a, Min(b, v))

\* The names of ShapeName, the keys of ParticleSystem.targets.
ShapeNames == {"SPHERE", "CUBE", "TORUSKNOT", "WAVE", "RING", "HEART", "TEXT"}

\* The draws of Math.random the shape generators may see: the model tells
\* two constructions apart.
Seeds == {0, 1}

\* A position of the buffer of one shape, in 1/10000: a value in [-1, 1)
\* that differs from shape to shape, from entry to entry and with the seed.
ShapeOffset(name) ==
    CASE name = "SPHERE" -> 0 [] name = "CUBE" -> 1 [] name = "TORUSKNOT" -> 2
      [] name = "WAVE" -> 3 [] name = "RING" -> 4 [] name = "HEART" -> 5
      [] name = "TEXT" -> 6

\* makeShapePositions(name, count): a Float32Array of count * 3 entries for
\* each case of the switch.
makeShapePositions(name, count, seed) ==
    [k \in 1..(count * 3) |->
        ((ShapeOffset(name) * 2900 + k * 7300 + seed * 4100) % 20000) - 10000]

\* new ParticleSystem(count): the field initialisers and the constructor;
\* currentTarget is a reference, held as the key of the buffer it refers to,
\* <<>> standing for undefined.
Construct(count, seed) ==
    LET targets == [n \in ShapeNames |-> makeShapePositions(n, count, seed)]
    IN [count |-> count, pos |-> targets["SPHERE"], targets |-> targets,
        currentTarget |-> <<"SPHERE">>, color |-> "#66ffd8",
        scatter |-> 0, scatterVel |-> 0, spread |-> 2500,
        panX |-> 0, panY |-> 0, zoom |-> 10000, rotationZ |-> 0]

\* The fields of a new ParticleSystem.
NewParticleSystem == Construct(ParticleCount, 0)

\* setColor also putting the object back to the middle.
setColor_Recentre(ps, hex) == [ps EXCEPT !.color = hex, !.panX = 0, !.panY = 0]

\* setColor(hex)
setColor(ps, hex) == [ps EXCEPT !.color = hex]

\* setShape keeping the buffer selected before the call.
setShape_Keep(ps, name) == ps

\* setShape(name): this.currentTarget = this.targets[name], undefined for a
\* name that is no key of targets.
setShape(ps, name) ==
    [ps EXCEPT !.currentTarget = IF name \in DOMAIN ps.targets THEN <<name>> ELSE <<>>]

\* Math.sin(x) in 1/1000, x >= 0 in 1/1000 rad, by Bhaskara's formula
\* 16 x (pi - x) / (5 pi^2 - 4 x (pi - x)) on [0, pi], which is within 0.002
\* of the sine.
sin(x) ==
    LET r == x % 6284
        y == IF r > 3142 THEN r - 3142 ELSE r
        q == y * (3142 - y)
        v == (16 * q * 50) \div ((5 * 3142 * 3142 - 4 * q) \div 20)
    IN IF r > 3142 THEN -v ELSE v

\* const breathe = 1 + Math.sin(t * 2.0) * 0.03 * s.stillness, in 1/10000;
\* t in ms, s.stillness in 1/1000.
Breathe(s, t) == 10000 + (sin(2 * t) * 3 * s.stillness) \div 10000

\* pseudoDir(i), in 1/1000, for the particles of the model.
pseudoDir(i) ==
    CASE i = 0 -> [x |-> -577, y |-> -577, z |-> -577]
      [] i = 1 -> [x |-> 625, y |-> 305, z |-> 719]
      [] i = 2 -> [x |-> -784, y |-> 619, z |-> -39]

\* The component of pseudoDir(i) that entry k of a buffer belongs to.
DirOf(k) ==
    LET d == pseudoDir((k - 1) \div 3)
    IN CASE (k - 1) % 3 = 0 -> d.x [] (k - 1) % 3 = 1 -> d.y [] OTHER -> d.z

\* The loop of updateParticles over the particles: each entry of pos moves
\* towards (target + dir * spreadAmt + dir * scatterAmt) * breatheScale.
StepPositions(ps, target, follow, breatheScale) ==
    [k \in DOMAIN ps.pos |->
        LET spreadAmt == (ps.spread * 9) \div 10
            scatterAmt == (ps.scatter * 22) \div 10
            g == ((target[k] + (DirOf(k) * spreadAmt) \div 1000
                             + (DirOf(k) * scatterAmt) \div 1000) * breatheScale) \div 10000
        IN lerp(ps.pos[k], g, follow)]

\* The read target[ix + 0] of the loop throws a TypeError when currentTarget
\* is undefined and there is a particle to step.
TargetMissing(ps) == ps.currentTarget = <<>> /\ ps.count > 0

\* updateParticles(dt, breatheScale): the three statements on scatterVel and
\* scatter, then the loop, which is not entered with TargetMissing.
updateParticles(ps, dt, breatheScale) ==
    LET vel == lerp(ps.scatterVel, 0, 10000 - pow(800, dt))
        pushed == clamp(ps.scatter + (vel * dt) \div 1000, 0, 10000)
        a == [ps EXCEPT !.scatterVel = vel,
                        !.scatter = lerp(pushed, 0, 10000 - pow(3500, dt))]
    IN IF TargetMissing(a) THEN a
       ELSE [a EXCEPT !.pos = StepPositions(a, a.targets[a.currentTarget[1]],
                                            10000 - pow(20, dt), breatheScale)]

\* The scatter pulse given only to a system whose scatterVel is 0.
Impulse_FromRestOnly(vel) == IF vel > 0 THEN vel ELSE Min(20000, vel + 14000)

\* The scatter pulse without the cap of 2.0.
Impulse_NoCap(vel) == vel + 14000

\* Math.min(2.0, this.scatterVel + 1.4)
Impulse(vel) == Min(20000, vel + 14000)

\* The steps of applyInteraction that decay by a fixed amount per call.
Follow_PerCall(ps, s, dt) ==
    [setShape(ps, s.shape) EXCEPT
               !.panX = lerp(ps.panX, s.panX, 10000 - pow(6, 16)),
               !.panY = lerp(ps.panY, s.panY, 10000 - pow(6, 16)),
               !.zoom = lerp(ps.zoom, s.zoom * 10, 10000 - pow(8, 16)),
               !.rotationZ = lerp(ps.rotationZ, s.rotation * 10, 10000 - pow(7, 16)),
               !.spread = lerp(ps.spread, s.spread * 10, 10000 - pow(10, 16))]

\* setShape and the five lerp statements of applyInteraction; s is the
\* InteractionState, whose zoom, rotation and spread are in 1/1000.
Follow(ps, s, dt) ==
    [setShape(ps, s.shape) EXCEPT
               !.panX = lerp(ps.panX, s.panX, 10000 - pow(6, dt)),
               !.panY = lerp(ps.panY, s.panY, 10000 - pow(6, dt)),
               !.zoom = lerp(ps.zoom, s.zoom * 10, 10000 - pow(8, dt)),
               !.rotationZ = lerp(ps.rotationZ, s.rotation * 10, 10000 - pow(7, dt)),
               !.spread = lerp(ps.spread, s.spread * 10, 10000 - pow(10, dt))]

\* The damping applied whether or not the state carries the pulse.
Damp_Always(ps, s) ==
    [ps EXCEPT !.spread = (ps.spread * 88) \div 100,
               !.scatter = (ps.scatter * 7) \div 10]

\* if (s.converge) { this.spread *= 0.88; this.scatter *= 0.7; }
Damp(ps, s) ==
    IF s.converge
    THEN [ps EXCEPT !.spread = (ps.spread * 88) \div 100,
                    !.scatter = (ps.scatter * 7) \div 10]
    ELSE ps

\* The impulse injected whether or not the state carries the pulse.
Inject_Always(ps, s) == [ps EXCEPT !.scatterVel = Impulse(ps.scatterVel)]

\* if (s.scatter) { this.scatterVel = Math.min(2.0, this.scatterVel + 1.4); }
Inject(ps, s) ==
    IF s.scatter THEN [ps EXCEPT !.scatterVel = Impulse(ps.scatterVel)] ELSE ps

\* applyInteraction(s, dt, t), t in ms
applyInteraction(ps, s, dt, t) ==
    updateParticles(Inject(Damp(Follow(ps, s, dt), s), s), dt, Breathe(s, t))

\* The fields of a new HandTracker: lastInfer in ms.
NewTracker == [lastInfer |-> 0]

\* The main loop before app.start: no tick yet, no call made.  running: a
\* tick is being executed; armed: requestAnimationFrame(tick) is pending;
\* calls: the calls of the current tick, each with the dt it was given;
\* now, dt, t: performance.now(), clock.getDelta() and clock.elapsedTime
\* of the tick, in ms; frames, events: the locals of the loop; status: what
\* ui.setStatus was given; applied: the state applyInteraction was given.
NoLoop ==
    [tick |-> 0, running |-> FALSE, armed |-> FALSE, calls |-> <<>>, now |-> 1000,
     dt |-> 0, t |-> 0, frames |-> <<>>, events |-> <<>>, status |-> <<>>,
     applied |-> <<>>]

(***************************************************************************)
(* InteractionCore                                                         *)
(***************************************************************************)

\* The payloads the model feeds in.  SPREAD and IDLE get a value below 0,
\* one inside [0,1] and one above 1; ZOOM, ROTATE and SHAKE_ENERGY get
\* values outside [0,1] as well.
EventPool ==
    {[type |-> "MODE", mode |-> m] : m \in {"SINGLE", "DUAL"}}
    \cup {[type |-> "MOVE", nx |-> c[1], ny |-> c[2]] : c \in {<<0, 1000>>, <<700, 200>>}}
    \cup {[type |-> "ZOOM", value |-> v] : v \in {-500, 2500}}
    \cup {[type |-> "ROTATE", angle |-> v] : v \in {-3141, 1570}}
    \cup {[type |-> "SPREAD", value |-> v] : v \in {-2000, 400, 3000}}
    \cup {[type |-> "SHAPE", name |-> n] : n \in {"HEART", "WAVE"}}
    \cup {[type |-> "SCATTER"], [type |-> "CONVERGE"]}
    \cup {[type |-> "IDLE", stillness |-> v] : v \in {-100, 600, 1001}}
    \cup {[type |-> "GESTURE_LABEL", label |-> l] : l \in {"FIST", "PINCH"}}
    \cup {[type |-> "SHAKE_ENERGY", value |-> v] : v \in {-700, 4200}}

Batches(n) == UNION {[1..k -> EventPool] : k \in 0..n}

\* clamp01 without its lower bound.
clamp01_NoFloor(v) == Min(1000, v)

clamp01(v) == Max(0, Min(1000, v))

InitialState ==
    [mode |-> "NONE", panX |-> 0, panY |-> 0, zoom |-> 1000, rotation |-> 0,
     spread |-> 250, scatter |-> FALSE, converge |-> FALSE, stillness |-> 1000,
     shape |-> "SPHERE", gestureLabel |-> "NONE", shakeEnergy |-> 0]

\* update without the reset of the pulses.
ResetPulses_Keep(s) == s

\* The first two statements of update.
ResetPulses(s) == [s EXCEPT !.scatter = FALSE, !.converge = FALSE]

\* One iteration of the loop of update: the switch on e.type.
ApplyEvent(s, e) ==
    CASE e.type = "MODE" -> [s EXCEPT !.mode = e.mode]
      [] e.type = "MOVE" ->
            [s EXCEPT !.panX = (e.nx - 500) * 30, !.panY = -((e.ny - 500) * 19)]
      [] e.type = "ZOOM" -> [s EXCEPT !.zoom = e.value]
      [] e.type = "ROTATE" -> [s EXCEPT !.rotation = e.angle]
      [] e.type = "SPREAD" -> [s EXCEPT !.spread = clamp01(e.value)]
      [] e.type = "SHAPE" -> [s EXCEPT !.shape = e.name]
      [] e.type = "SCATTER" -> [s EXCEPT !.scatter = TRUE]
      [] e.type = "CONVERGE" -> [s EXCEPT !.converge = TRUE]
      [] e.type = "IDLE" -> [s EXCEPT !.stillness = clamp01(e.stillness)]
      [] e.type = "GESTURE_LABEL" -> [s EXCEPT !.gestureLabel = e.label]
      [] e.type = "SHAKE_ENERGY" -> [s EXCEPT !.shakeEnergy = e.value]
      [] OTHER -> s

\* The loop of update walking the batch from its end: the first event wins.
RECURSIVE ApplyAll_Backwards(_, _)
ApplyAll_Backwards(s, events) ==
    IF events = <<>> THEN s
    ELSE ApplyEvent(ApplyAll_Backwards(s, Tail(events)), Head(events))

\* for (const e of events) { switch ... }
RECURSIVE ApplyAll(_, _)
ApplyAll(s, events) ==
    IF events = <<>> THEN s
    ELSE ApplyAll(ApplyEvent(s, Head(events)), Tail(events))

\* update starting every call from a fresh state record.
update_Fresh(s, events) == ApplyAll(InitialState, events)

\* InteractionCore.update(events): the state it leaves.
update(s, events) == ApplyAll(ResetPulses(s), events)

NoCall == [op |-> "none"]

InitCore ==
    /\ state = InitialState
    /\ batch = <<>>
    /\ before = InitialState
    /\ consumed = 0
    /\ particles = NewParticleSystem
    /\ tracker = NewTracker
    /\ loop = NoLoop
    /\ registered = <<>>
    /\ plugins = <<>>
    /\ pstate = <<>>
    /\ lastCall = NoCall
    /\ ticks = 0
    /\ other = NoCall
    /\ agree = {}

\* One call interactionCore.update(events).
CoreUpdate ==
    \E events \in Batches(MaxEvents - consumed) :
        /\ before' = state
        /\ batch' = events
        /\ state' = update(state, events)
        /\ consumed' = consumed + Len(events)
        /\ UNCHANGED engineVars
        /\ UNCHANGED pairVars
        /\ UNCHANGED appVars

NextCore == CoreUpdate

SpecCore == InitCore /\ [][NextCore]_vars

(***************************************************************************)
(* HandTracker: from 21 landmarks to a HandFrame                           *)
(***************************************************************************)

\* Math.hypot, rounded down to the fixed-point grid.
hypot(dx, dy) ==
    CHOOSE r \in 0..1500 : r * r <= dx * dx + dy * dy /\ dx * dx + dy * dy < (r + 1) * (r + 1)

\* The body of the loop of HandTracker.update for one hand with 21 landmarks:
\* pinch from thumb tip (4) and index tip (8), center from wrist (0) and
\* middle MCP (9), size from wrist (0) and middle tip (12).
HandFrameOf(lm) ==
    [landmarks |-> lm,
     center |-> [x |-> (lm[0].x + lm[9].x) \div 2, y |-> (lm[0].y + lm[9].y) \div 2],
     size |-> clamp01((hypot(lm[12].x - lm[0].x, lm[12].y - lm[0].y) * 22) \div 10),
     pinch |-> clamp01(1000 - ((hypot(lm[4].x - lm[8].x, lm[4].y - lm[8].y) - 20) * 1000) \div 120)]

\* A hand as the detector may report it: the wrist at wx, the four fingers
\* raised (tip and DIP above the PIP joint) or curled, the thumb tip at
\* (tx, ty); the thumb's joint 2 is at x = wx - 200.
Hand(wx, index, middle, ring, pinky, tx, ty) ==
    LET up(k) == (k \in 6..8 /\ index) \/ (k \in 10..12 /\ middle)
                 \/ (k \in 14..16 /\ ring) \/ (k \in 18..20 /\ pinky)
        fx(k) == wx - 100 + 100 * ((k - 5) \div 4)
    IN [k \in 0..20 |->
          IF k = 0 THEN [x |-> wx, y |-> 900]
          ELSE IF k = 4 THEN [x |-> tx, y |-> ty]
          ELSE IF k < 4 THEN [x |-> wx - 200, y |-> 600]
          ELSE IF k \in {5, 9, 13, 17} THEN [x |-> fx(k), y |-> 600]
          ELSE IF k \in {6, 10, 14, 18} THEN [x |-> fx(k), y |-> 500]
          ELSE IF k \in {7, 11, 15, 19}
               THEN [x |-> fx(k), y |-> IF up(k) THEN 400 ELSE 600]
          ELSE [x |-> fx(k), y |-> IF up(k) THEN 300 ELSE 700]]

\* The frames the model feeds in, by the hand they show.
OpenPalmHand == HandFrameOf(Hand(500, TRUE, TRUE, TRUE, TRUE, 200, 500))
FistHand == HandFrameOf(Hand(500, FALSE, FALSE, FALSE, FALSE, 320, 600))
VSignHand == HandFrameOf(Hand(500, TRUE, TRUE, FALSE, FALSE, 320, 600))
OkSignHand == HandFrameOf(Hand(500, TRUE, TRUE, TRUE, TRUE, 400, 370))
PinchHand == HandFrameOf(Hand(500, TRUE, FALSE, FALSE, FALSE, 400, 310))
HalfPinchHand == HandFrameOf(Hand(500, TRUE, TRUE, TRUE, TRUE, 400, 350))
PointingHand == HandFrameOf(Hand(500, TRUE, FALSE, FALSE, FALSE, 320, 600))

HandPool ==
    {OpenPalmHand, FistHand, VSignHand, OkSignHand, PinchHand, HalfPinchHand,
     PointingHand}

\* The optional field handedness of a HandFrame, <<>> when it is undefined.
Handed(h) == IF "handedness" \in DOMAIN h THEN h.handedness ELSE <<>>

\* The frame pushed for a detected hand: handedness is handed[i] if that is
\* "Left" or "Right" and undefined otherwise.
TagFrame(f, handed) ==
    [landmarks |-> f.landmarks, center |-> f.center, size |-> f.size, pinch |-> f.pinch,
     handedness |-> IF handed \in {"Left", "Right"} THEN <<handed>> ELSE <<>>]

\* (a.handedness ?? "Left").localeCompare(b.handedness ?? "Left") > 0
SortsAfter(a, b) ==
    (IF Handed(a) = <<>> THEN "Left" ELSE Handed(a)[1]) = "Right"
    /\ (IF Handed(b) = <<>> THEN "Left" ELSE Handed(b)[1]) = "Left"

\* An insertion that puts a frame ahead of the frames it compares equal to.
RECURSIVE InsertFrame_BeforeEqual(_, _)
InsertFrame_BeforeEqual(h, sorted) ==
    IF sorted = <<>> THEN <<h>>
    ELSE IF ~SortsAfter(h, Head(sorted)) THEN <<h>> \o sorted
    ELSE <<Head(sorted)>> \o InsertFrame_BeforeEqual(h, Tail(sorted))

\* Array.prototype.sort is stable: a frame goes behind the frames it compares
\* equal to.
RECURSIVE InsertFrame(_, _)
InsertFrame(h, sorted) ==
    IF sorted = <<>> THEN <<h>>
    ELSE IF SortsAfter(Head(sorted), h) THEN <<h>> \o sorted
    ELSE <<Head(sorted)>> \o InsertFrame(h, Tail(sorted))

\* frames.sort((a, b) => A.localeCompare(B))
RECURSIVE SortFrames(_)
SortFrames(frames) ==
    IF frames = <<>> THEN <<>>
    ELSE InsertFrame(frames[Len(frames)], SortFrames(SubSeq(frames, 1, Len(frames) - 1)))

\* numHands: 2 of the options of the detector.
NumHands == 2

\* this.inferIntervalMs = 1000 / 30: now - lastInfer < inferIntervalMs, the
\* times in ms.
Throttled(tr, now) == 3 * (now - tr.lastInfer) < 100

\* HandTracker.update() at the time now with the detection det, a list of
\* hands [landmarks, handed]: the frames returned and the fields after.
TrackerUpdate(tr, now, det) ==
    IF Throttled(tr, now) THEN [frames |-> <<>>, tr |-> tr]
    ELSE LET valid == SelectSeq(det, LAMBDA d : DOMAIN d.landmarks = 0..20)
             pushed == [i \in DOMAIN valid |->
                          TagFrame(HandFrameOf(valid[i].landmarks), valid[i].handed)]
         IN [frames |-> SortFrames(pushed), tr |-> [tr EXCEPT !.lastInfer = now]]

\* The hand h with the thumb tip at the distance from the index tip that
\* makes the pinch p, for the values the landmark grid of the model misses.
WithPinch(h, p) == [h EXCEPT !.pinch = p]

\* Hands on and next to the two thresholds of the pinch gate.
PinchEdgeHands ==
    {WithPinch(OpenPalmHand, 820), WithPinch(OpenPalmHand, 821),
     WithPinch(FistHand, 650), WithPinch(FistHand, 649),
     WithPinch(PointingHand, 700)}

(***************************************************************************)
(* GestureLabelPlugin                                                      *)
(***************************************************************************)

HOLD_THRESHOLD == 4

\* The private fields of a new GestureLabelPlugin.
FreshLabelState ==
    [lastGesture |-> "NONE", candidate |-> "NONE", holdFrames |-> 0,
     pinchActive |-> FALSE]

\* A gate with the single threshold 0.82.
checkPinch_OneThreshold(pinchActive, pinch) == pinch > 820

\* checkPinch(pinch): the value it returns, which is also the new pinchActive.
checkPinch(pinchActive, pinch) ==
    IF pinchActive THEN ~(pinch < 650) ELSE pinch > 820

isFingerExtended(lm, pip, dip, tip) == lm[tip].y < lm[pip].y /\ lm[dip].y < lm[pip].y

isThumbExtended(lm) ==
    (IF lm[4].x - lm[2].x < 0 THEN lm[2].x - lm[4].x ELSE lm[4].x - lm[2].x) > 60

\* classify falling back to NONE when no pattern matches.
classifyFingers_DefaultNone(st, h) ==
    LET lm == h.landmarks
        index == isFingerExtended(lm, 6, 7, 8)
        middle == isFingerExtended(lm, 10, 11, 12)
        ring == isFingerExtended(lm, 14, 15, 16)
        pinky == isFingerExtended(lm, 18, 19, 20)
        thumb == isThumbExtended(lm)
        extCount == (IF index THEN 1 ELSE 0) + (IF middle THEN 1 ELSE 0)
                    + (IF ring THEN 1 ELSE 0) + (IF pinky THEN 1 ELSE 0)
    IN IF index /\ h.pinch > 280 /\ extCount >= 3 THEN "OK_SIGN"
       ELSE IF extCount = 0 /\ ~thumb THEN "FIST"
       ELSE IF index /\ middle /\ ~ring /\ (IF pinky THEN h.pinch < 200 ELSE TRUE)
            THEN "V_SIGN"
       ELSE IF extCount >= 3 THEN "OPEN_PALM"
       ELSE "NONE"

\* classify(h), given that checkPinch has returned false.
classifyFingers(st, h) ==
    LET lm == h.landmarks
        index == isFingerExtended(lm, 6, 7, 8)
        middle == isFingerExtended(lm, 10, 11, 12)
        ring == isFingerExtended(lm, 14, 15, 16)
        pinky == isFingerExtended(lm, 18, 19, 20)
        thumb == isThumbExtended(lm)
        extCount == (IF index THEN 1 ELSE 0) + (IF middle THEN 1 ELSE 0)
                    + (IF ring THEN 1 ELSE 0) + (IF pinky THEN 1 ELSE 0)
    IN IF index /\ h.pinch > 280 /\ extCount >= 3 THEN "OK_SIGN"
       ELSE IF extCount = 0 /\ ~thumb THEN "FIST"
       ELSE IF index /\ middle /\ ~ring /\ (IF pinky THEN h.pinch < 200 ELSE TRUE)
            THEN "V_SIGN"
       ELSE IF extCount >= 3 THEN "OPEN_PALM"
       ELSE st.lastGesture

\* classify(h): the raw label.
classify(st, h) ==
    IF checkPinch(st.pinchActive, h.pinch) THEN "PINCH" ELSE classifyFingers(st, h)

\* The debounce counting on after the threshold without resetting.
Debounce_NoReset(st, raw) ==
    IF raw = st.lastGesture
    THEN [st EXCEPT !.candidate = raw, !.holdFrames = 0]
    ELSE IF raw = st.candidate
         THEN IF st.holdFrames + 1 >= HOLD_THRESHOLD
              THEN [st EXCEPT !.lastGesture = raw, !.holdFrames = st.holdFrames + 1]
              ELSE [st EXCEPT !.holdFrames = st.holdFrames + 1]
         ELSE [st EXCEPT !.candidate = raw, !.holdFrames = 1]

\* The debounce of update for one hand, raw being what classify returned.
Debounce(st, raw) ==
    IF raw = st.lastGesture
    THEN [st EXCEPT !.candidate = raw, !.holdFrames = 0]
    ELSE IF raw = st.candidate
         THEN IF st.holdFrames + 1 >= HOLD_THRESHOLD
              THEN [st EXCEPT !.lastGesture = raw, !.holdFrames = 0]
              ELSE [st EXCEPT !.holdFrames = st.holdFrames + 1]
         ELSE [st EXCEPT !.candidate = raw, !.holdFrames = 1]

\* update with the zero-hand label sent through the debounce.
GestureLabelUpdate_NoHandDebounced(st, frames) ==
    IF Len(frames) = 0
    THEN LET next == Debounce(st, "NONE")
         IN [events |-> <<[type |-> "GESTURE_LABEL", label |-> next.lastGesture]>>,
             st |-> next]
    ELSE IF Len(frames) >= 2
    THEN [events |-> <<[type |-> "GESTURE_LABEL", label |-> "DUAL_HANDS"]>>,
          st |-> [st EXCEPT !.lastGesture = "DUAL_HANDS"]]
    ELSE LET raw == classify(st, frames[1])
             gated == [st EXCEPT !.pinchActive = checkPinch(st.pinchActive, frames[1].pinch)]
             next == Debounce(gated, raw)
         IN [events |-> <<[type |-> "GESTURE_LABEL", label |-> next.lastGesture]>>,
             st |-> next]

\* update starting the debounce afresh in a tick without exactly one hand.
GestureLabelUpdate_ForgetOnCount(st, frames) ==
    IF Len(frames) = 0
    THEN [events |-> <<[type |-> "GESTURE_LABEL", label |-> "NONE"]>>,
          st |-> [FreshLabelState EXCEPT !.lastGesture = "NONE"]]
    ELSE IF Len(frames) >= 2
    THEN [events |-> <<[type |-> "GESTURE_LABEL", label |-> "DUAL_HANDS"]>>,
          st |-> [FreshLabelState EXCEPT !.lastGesture = "DUAL_HANDS"]]
    ELSE LET raw == classify(st, frames[1])
             gated == [st EXCEPT !.pinchActive = checkPinch(st.pinchActive, frames[1].pinch)]
             next == Debounce(gated, raw)
         IN [events |-> <<[type |-> "GESTURE_LABEL", label |-> next.lastGesture]>>,
             st |-> next]

\* GestureLabelPlugin.update(frames): the event list and the fields it leaves.
GestureLabelUpdate(st, frames) ==
    IF Len(frames) = 0
    THEN [events |-> <<[type |-> "GESTURE_LABEL", label |-> "NONE"]>>,
          st |-> [st EXCEPT !.lastGesture = "NONE"]]
    ELSE IF Len(frames) >= 2
    THEN [events |-> <<[type |-> "GESTURE_LABEL", label |-> "DUAL_HANDS"]>>,
          st |-> [st EXCEPT !.lastGesture = "DUAL_HANDS"]]
    ELSE LET raw == classify(st, frames[1])
             gated == [st EXCEPT !.pinchActive = checkPinch(st.pinchActive, frames[1].pinch)]
             next == Debounce(gated, raw)
         IN [events |-> <<[type |-> "GESTURE_LABEL", label |-> next.lastGesture]>>,
             st |-> next]

(***************************************************************************)
(* The plugins of src/engine/gesture/plugins                               *)
(***************************************************************************)

Abs(v) == IF v < 0 THEN -v ELSE v

\* Math.atan on [0, 1], in 1/1000 rad: t * (pi/4 + 0.273 * (1 - t)).
atanUnit(t) == (t * (785000 + 273 * (1000 - t))) \div 1000000

\* Math.atan2(y, x) in 1/1000 rad.
atan2(y, x) ==
    IF x = 0 /\ y = 0 THEN 0
    ELSE LET a == IF Abs(x) >= Abs(y)
                  THEN atanUnit((Abs(y) * 1000) \div Abs(x))
                  ELSE 1571 - atanUnit((Abs(x) * 1000) \div Abs(y))
         IN IF x >= 0 THEN (IF y >= 0 THEN a ELSE -a)
            ELSE (IF y >= 0 THEN 3142 - a ELSE a - 3142)

\* The fields of a plugin class that declares none besides name, phase and
\* priority.
NoFields == [fields |-> "none"]

\* DualHandPlugin.update with both thresholds included.
DualHandUpdate_Inclusive(frames) ==
    IF Len(frames) < 2 THEN <<>>
    ELSE LET dx == frames[1].center.x - frames[2].center.x
             dy == frames[1].center.y - frames[2].center.y
         IN <<[type |-> "MODE", mode |-> "DUAL"],
              [type |-> "ZOOM", value |-> 600 + hypot(dx, dy) * 3],
              [type |-> "ROTATE", angle |-> atan2(dy, dx)]>>
            \o (IF dx * dx + dy * dy <= 120 * 120 THEN <<[type |-> "CONVERGE"]>> ELSE <<>>)
            \o (IF dx * dx + dy * dy >= 600 * 600 THEN <<[type |-> "SCATTER"]>> ELSE <<>>)

\* DualHandPlugin.update with CONVERGE up to 0.72, past the SCATTER threshold.
DualHandUpdate_Overlap(frames) ==
    IF Len(frames) < 2 THEN <<>>
    ELSE LET dx == frames[1].center.x - frames[2].center.x
             dy == frames[1].center.y - frames[2].center.y
         IN <<[type |-> "MODE", mode |-> "DUAL"],
              [type |-> "ZOOM", value |-> 600 + hypot(dx, dy) * 3],
              [type |-> "ROTATE", angle |-> atan2(dy, dx)]>>
            \o (IF dx * dx + dy * dy < 720 * 720 THEN <<[type |-> "CONVERGE"]>> ELSE <<>>)
            \o (IF dx * dx + dy * dy > 600 * 600 THEN <<[type |-> "SCATTER"]>> ELSE <<>>)

\* DualHandPlugin.update(frames): dist < 0.12 and dist > 0.6 are compared on
\* the squares, which is exact on the grid.
DualHandUpdate(frames) ==
    IF Len(frames) < 2 THEN <<>>
    ELSE LET dx == frames[1].center.x - frames[2].center.x
             dy == frames[1].center.y - frames[2].center.y
         IN <<[type |-> "MODE", mode |-> "DUAL"],
              [type |-> "ZOOM", value |-> 600 + hypot(dx, dy) * 3],
              [type |-> "ROTATE", angle |-> atan2(dy, dx)]>>
            \o (IF dx * dx + dy * dy < 120 * 120 THEN <<[type |-> "CONVERGE"]>> ELSE <<>>)
            \o (IF dx * dx + dy * dy > 600 * 600 THEN <<[type |-> "SCATTER"]>> ELSE <<>>)

\* SingleHandMovePlugin.update answering for the first hand of any tick that
\* has one.
SingleHandMoveUpdate_AnyHands(frames) ==
    IF Len(frames) < 1 THEN <<>>
    ELSE <<[type |-> "MODE", mode |-> "SINGLE"],
           [type |-> "MOVE", nx |-> frames[1].center.x, ny |-> frames[1].center.y],
           [type |-> "ZOOM", value |-> 800 + frames[1].size]>>

\* SingleHandMovePlugin.update putting the mode back to NONE when it sees no
\* hand.
SingleHandMoveUpdate_NoneOnNoHand(frames) ==
    IF Len(frames) = 0 THEN <<[type |-> "MODE", mode |-> "NONE"]>>
    ELSE IF Len(frames) # 1 THEN <<>>
    ELSE <<[type |-> "MODE", mode |-> "SINGLE"],
           [type |-> "MOVE", nx |-> frames[1].center.x, ny |-> frames[1].center.y],
           [type |-> "ZOOM", value |-> 800 + frames[1].size]>>

\* SingleHandMovePlugin.update(frames)
SingleHandMoveUpdate(frames) ==
    IF Len(frames) # 1 THEN <<>>
    ELSE <<[type |-> "MODE", mode |-> "SINGLE"],
           [type |-> "MOVE", nx |-> frames[1].center.x, ny |-> frames[1].center.y],
           [type |-> "ZOOM", value |-> 800 + frames[1].size]>>

\* PinchSpreadPlugin.update(frames)
PinchSpreadUpdate(frames) ==
    IF Len(frames) # 1 THEN <<>>
    ELSE <<[type |-> "SPREAD", value |-> clamp01(1000 - frames[1].pinch)]>>

\* GestureShapePlugin.update with both thresholds included.
GestureShapeUpdate_Inclusive(frames) ==
    IF Len(frames) # 1 THEN <<>>
    ELSE IF frames[1].pinch >= 800 THEN <<[type |-> "SHAPE", name |-> "HEART"]>>
    ELSE IF frames[1].pinch <= 200 THEN <<[type |-> "SHAPE", name |-> "WAVE"]>>
    ELSE <<[type |-> "SHAPE", name |-> "SPHERE"]>>

\* GestureShapePlugin.update going back to SPHERE when it does not see
\* exactly one hand.
GestureShapeUpdate_SphereOnCount(frames) ==
    IF Len(frames) # 1 THEN <<[type |-> "SHAPE", name |-> "SPHERE"]>>
    ELSE IF frames[1].pinch > 800 THEN <<[type |-> "SHAPE", name |-> "HEART"]>>
    ELSE IF frames[1].pinch < 200 THEN <<[type |-> "SHAPE", name |-> "WAVE"]>>
    ELSE <<[type |-> "SHAPE", name |-> "SPHERE"]>>

\* GestureShapePlugin.update(frames)
GestureShapeUpdate(frames) ==
    IF Len(frames) # 1 THEN <<>>
    ELSE IF frames[1].pinch > 800 THEN <<[type |-> "SHAPE", name |-> "HEART"]>>
    ELSE IF frames[1].pinch < 200 THEN <<[type |-> "SHAPE", name |-> "WAVE"]>>
    ELSE <<[type |-> "SHAPE", name |-> "SPHERE"]>>

\* A new EMA(alpha): not yet initialised.
FreshEMA == [inited |-> FALSE, value |-> 0]

\* EMA.update(x) with alpha in 1/1000: the object after the call; the value
\* returned is its field value.
EMAUpdate(ema, alpha, x) ==
    IF ~ema.inited THEN [inited |-> TRUE, value |-> x]
    ELSE [inited |-> TRUE, value |-> (alpha * x + (1000 - alpha) * ema.value) \div 1000]

\* The private fields of a new ShakeScatterPlugin; cooldown in ms.
FreshShakeState ==
    [prevX |-> 0, prevY |-> 0, history |-> <<>>, energyEma |-> FreshEMA, cooldown |-> 0]

\* The loop of update over history: the sum of |history[i] - history[i-1]|.
RECURSIVE SumOfSteps(_)
SumOfSteps(h) ==
    IF Len(h) < 2 THEN 0
    ELSE Abs(h[2] - h[1]) + SumOfSteps(Tail(h))

\* update with the cooldown running down in every tick, whatever the
\* number of hands.
ShakeScatterUpdate_CooldownEveryTick(st, frames, ctx) ==
    IF Len(frames) # 1
    THEN [events |-> <<>>,
          st |-> [st EXCEPT !.cooldown = Max(0, st.cooldown - Max(ctx.dt, 1))]]
    ELSE LET h == frames[1]
             dt == Max(ctx.dt, 1)
             v == (hypot(h.center.x - st.prevX, h.center.y - st.prevY) * 1000) \div dt
             pushed == Append(st.history, v)
             history == IF Len(pushed) > 8 THEN Tail(pushed) ELSE pushed
             energy == SumOfSteps(history) \div Len(history)
             ema == EMAUpdate(st.energyEma, 350, energy)
             cooldown == Max(0, st.cooldown - dt)
             fire == cooldown <= 0 /\ ema.value > 2200
         IN [events |-> IF fire THEN <<[type |-> "SCATTER"]>> ELSE <<>>,
             st |-> [prevX |-> h.center.x, prevY |-> h.center.y, history |-> history,
                     energyEma |-> ema,
                     cooldown |-> IF fire THEN 1000 ELSE cooldown]]

\* ShakeScatterPlugin.update(frames, ctx), ctx.dt in ms, speeds in 1/1000
\* unit per second.  The speed is taken as hypot(dx, dy) / dt, which is
\* hypot(dx / dt, dy / dt) for dt > 0.
ShakeScatterUpdate(st, frames, ctx) ==
    IF Len(frames) # 1 THEN [events |-> <<>>, st |-> st]
    ELSE LET h == frames[1]
             dt == Max(ctx.dt, 1)
             v == (hypot(h.center.x - st.prevX, h.center.y - st.prevY) * 1000) \div dt
             pushed == Append(st.history, v)
             history == IF Len(pushed) > 8 THEN Tail(pushed) ELSE pushed
             energy == SumOfSteps(history) \div Len(history)
             ema == EMAUpdate(st.energyEma, 350, energy)
             cooldown == Max(0, st.cooldown - dt)
             fire == cooldown <= 0 /\ ema.value > 2200
         IN [events |-> IF fire THEN <<[type |-> "SCATTER"]>> ELSE <<>>,
             st |-> [prevX |-> h.center.x, prevY |-> h.center.y, history |-> history,
                     energyEma |-> ema,
                     cooldown |-> IF fire THEN 1000 ELSE cooldown]]

(***************************************************************************)
(* GesturePlugin and GestureEngine                                         *)
(***************************************************************************)

\* An optional field is <<>> (undefined) or <<v>>;  a ?? d  is OrElse(a, d).
OrElse(opt, d) == IF opt = <<>> THEN d ELSE opt[1]

\* A freshly constructed plugin instance: no class sets enabled.
PluginInstance(name, phase, priority) ==
    [name |-> name, phase |-> phase, priority |-> priority, enabled |-> <<>>]

\* The plugin classes the plugins directory may hold: any implementation of
\* the GesturePlugin interface, with or without a phase and a priority.
PluginPool ==
    {PluginInstance("Before50", <<"before">>, <<50>>),
     PluginInstance("Main5", <<"main">>, <<5>>),
     PluginInstance("After10", <<"after">>, <<10>>),
     PluginInstance("Main100", <<"main">>, <<100>>),
     PluginInstance("Bare", <<>>, <<>>)}

PluginNames == {c.name : c \in PluginPool}

\* The private fields of a new instance of a class of the pool.
FreshPluginState == [calls |-> 0, seen |-> 0]

\* The private fields of a new instance of the plugin called name.
FreshStateOf(name) ==
    CASE name = "GestureLabel" -> FreshLabelState
      [] name = "ShakeScatter" -> FreshShakeState
      [] name \in {"DualHand", "SingleHandMove", "PinchSpread", "ShapeByGesture"} -> NoFields
      [] OTHER -> FreshPluginState

\* GesturePlugin.update of a plugin of the pool: the events depend on the
\* frames, on ctx and on the plugin's own fields, which it updates.
PoolPluginUpdate(p, st, frames, ctx) ==
    [events |->
        IF frames = <<>>
        THEN <<[type |-> "GESTURE_LABEL", label |-> p.name]>>
        ELSE <<[type |-> "GESTURE_LABEL", label |-> p.name],
               [type |-> "SPREAD", value |-> 1000 - frames[1].pinch],
               [type |-> "SHAKE_ENERGY", value |-> st.seen * 1000 + ctx.dt],
               [type |-> "ROTATE", angle |-> ctx.time]>>,
     st |-> [calls |-> st.calls + 1, seen |-> st.seen + Len(frames)]]

\* p.update(frames, ctx)
PluginUpdate(p, st, frames, ctx) ==
    CASE p.name = "GestureLabel" -> GestureLabelUpdate(st, frames)
      [] p.name = "ShakeScatter" -> ShakeScatterUpdate(st, frames, ctx)
      [] p.name = "DualHand" -> [events |-> DualHandUpdate(frames), st |-> st]
      [] p.name = "SingleHandMove" -> [events |-> SingleHandMoveUpdate(frames), st |-> st]
      [] p.name = "PinchSpread" -> [events |-> PinchSpreadUpdate(frames), st |-> st]
      [] p.name = "ShapeByGesture" -> [events |-> GestureShapeUpdate(frames), st |-> st]
      [] OTHER -> PoolPluginUpdate(p, st, frames, ctx)

\* The comparator of the sort in loadPlugins.
ComparePriority(a, b) == OrElse(a.priority, 100) - OrElse(b.priority, 100)

\* An insertion that puts p before the entries that compare equal to it.
RECURSIVE InsertSorted_BeforeEqual(_, _)
InsertSorted_BeforeEqual(sorted, p) ==
    IF sorted = <<>> THEN <<p>>
    ELSE IF ComparePriority(Head(sorted), p) < 0
         THEN <<Head(sorted)>> \o InsertSorted_BeforeEqual(Tail(sorted), p)
         ELSE <<p>> \o sorted

\* Array.prototype.sort is stable: p goes behind every entry that does
\* not compare greater.
RECURSIVE InsertSorted(_, _)
InsertSorted(sorted, p) ==
    IF sorted = <<>> THEN <<p>>
    ELSE IF ComparePriority(Head(sorted), p) <= 0
         THEN <<Head(sorted)>> \o InsertSorted(Tail(sorted), p)
         ELSE <<p>> \o sorted

\* this.plugins.sort((a, b) => (a.priority ?? 100) - (b.priority ?? 100))
RECURSIVE SortPlugins(_)
SortPlugins(ps) ==
    IF ps = <<>> THEN <<>>
    ELSE InsertSorted(SortPlugins(SubSeq(ps, 1, Len(ps) - 1)), ps[Len(ps)])

\* What a process call has gathered so far: the events, for each of them the
\* plugin that returned it, the plugins invoked, the plugins' fields.
EmptyRun(pst) == [events |-> <<>>, origin |-> <<>>, calls |-> <<>>, pstate |-> pst]

\* The call site handing the plugin the number of events gathered so far in
\* place of the time.
CallPlugin_Leaky(p, acc, frames, dt, time) ==
    LET r == PluginUpdate(p, acc.pstate[p.name], frames,
                          [dt |-> dt, time |-> Len(acc.events)])
    IN [events |-> acc.events \o r.events,
        origin |-> acc.origin \o [k \in 1..Len(r.events) |-> p.name],
        calls |-> Append(acc.calls, p.name),
        pstate |-> [acc.pstate EXCEPT ![p.name] = r.st]]

\* events.push(...p.update(frames, { dt, time }))
CallPlugin(p, acc, frames, dt, time) ==
    LET r == PluginUpdate(p, acc.pstate[p.name], frames, [dt |-> dt, time |-> time])
    IN [events |-> acc.events \o r.events,
        origin |-> acc.origin \o [k \in 1..Len(r.events) |-> p.name],
        calls |-> Append(acc.calls, p.name),
        pstate |-> [acc.pstate EXCEPT ![p.name] = r.st]]

\* The test of runPhase that skips a plugin, without the enabled check.
Skips_IgnoreEnabled(p, phase) == OrElse(p.phase, "main") # phase

\* if (p.enabled === false) continue; if ((p.phase ?? "main") !== phase) continue;
Skips(p, phase) == p.enabled = <<FALSE>> \/ OrElse(p.phase, "main") # phase

\* runPhase(phase): the loop over this.plugins, from the entries ps on.
RECURSIVE runPhase(_, _, _, _, _, _)
runPhase(phase, ps, acc, frames, dt, time) ==
    IF ps = <<>> THEN acc
    ELSE runPhase(phase, Tail(ps),
                  IF Skips(Head(ps), phase) THEN acc
                  ELSE CallPlugin(Head(ps), acc, frames, dt, time),
                  frames, dt, time)

\* process running the main phase ahead of the before phase.
process_MainFirst(ps, pst, frames, dt, time) ==
    LET m == runPhase("main", ps, EmptyRun(pst), frames, dt, time)
        b == runPhase("before", ps, m, frames, dt, time)
    IN runPhase("after", ps, b, frames, dt, time)

\* GestureEngine.process(frames, dt, time)
process(ps, pst, frames, dt, time) ==
    LET b == runPhase("before", ps, EmptyRun(pst), frames, dt, time)
        m == runPhase("main", ps, b, frames, dt, time)
    IN runPhase("after", ps, m, frames, dt, time)

\* setPluginEnabled writing the flag of every plugin.
setPluginEnabled_All(ps, name, enabled) ==
    [i \in DOMAIN ps |-> [ps[i] EXCEPT !.enabled = <<enabled>>]]

\* const p = this.plugins.find(p => p.name === name); if (p) p.enabled = enabled;
setPluginEnabled(ps, name, enabled) ==
    IF \E i \in DOMAIN ps : ps[i].name = name
    THEN LET k == CHOOSE i \in DOMAIN ps :
                    ps[i].name = name /\ \A j \in DOMAIN ps : ps[j].name = name => i <= j
         IN [ps EXCEPT ![k].enabled = <<enabled>>]
    ELSE ps

\* The orders in which loadPlugins may push the instances: up to MaxPlugins
\* classes of the pool, each once.
Registrations ==
    {q \in UNION {[1..k -> PluginPool] : k \in 0..MaxPlugins} :
        \A i, j \in DOMAIN q : i # j => q[i].name # q[j].name}

\* The frame lists HandTracker.update may return: zero, one or two hands.
FramesPool ==
    {<<>>, <<FistHand>>, <<OpenPalmHand, FistHand>>}

\* new GestureEngine(): loadPlugins pushes the instances and sorts them.
InitEngine ==
    /\ \E q \in Registrations :
          /\ registered = [i \in DOMAIN q |-> q[i].name]
          /\ plugins = SortPlugins(q)
          /\ pstate = [n \in {q[i].name : i \in DOMAIN q} |-> FreshStateOf(n)]
    /\ lastCall = [op |-> "loadPlugins"]
    /\ ticks = 0
    /\ other = NoCall
    /\ agree = {}
    /\ batch = <<>>
    /\ state = InitialState
    /\ before = InitialState
    /\ consumed = 0
    /\ particles = NewParticleSystem
    /\ tracker = NewTracker
    /\ loop = NoLoop

\* One call gestureEngine.process(frames, dt, time).
EngineProcess ==
    /\ ticks < MaxTicks
    /\ \E frames \in FramesPool, dt \in {16}, time \in {ticks + 1} :
          LET r == process(plugins, pstate, frames, dt, time)
          IN /\ batch' = r.events
             /\ pstate' = r.pstate
             /\ lastCall' = [op |-> "process", frames |-> frames, dt |-> dt,
                             time |-> time, calls |-> r.calls,
                             origin |-> r.origin, pbefore |-> pstate]
    /\ ticks' = ticks + 1
    /\ UNCHANGED <<registered, plugins>>
    /\ UNCHANGED coreVars
    /\ UNCHANGED appVars
    /\ UNCHANGED pairVars

\* One call gestureEngine.setPluginEnabled(name, enabled), between two ticks.
EngineSetPluginEnabled ==
    /\ ticks < MaxTicks
    /\ \E name \in {registered[i] : i \in DOMAIN registered} \cup {"NoSuchPlugin"},
          enabled \in BOOLEAN :
          /\ plugins' = setPluginEnabled(plugins, name, enabled)
          /\ lastCall' = [op |-> "setPluginEnabled", name |-> name,
                          enabled |-> enabled]
    /\ UNCHANGED <<registered, pstate, ticks, batch>>
    /\ UNCHANGED coreVars
    /\ UNCHANGED appVars
    /\ UNCHANGED pairVars

NextEngine == EngineProcess \/ EngineSetPluginEnabled

SpecEngine == InitEngine /\ [][NextEngine]_vars

(***************************************************************************)
(* Two engines side by side                                                *)
(***************************************************************************)

\* The modules of the plugins directory, in the order the glob lists them:
\* two of the pool and GestureLabelPlugin, which the sort moves to the front.
PairPool ==
    <<PluginInstance("Bare", <<>>, <<>>),
      PluginInstance("Main5", <<"main">>, <<5>>),
      PluginInstance("GestureLabel", <<"before">>, <<0>>)>>

\* The registries after the push loop: the modules that export a plugin
\* class, in glob order.
PairRegistrations ==
    {SelectSeq(PairPool, LAMBDA p : p.name \in S) :
        S \in SUBSET {PairPool[i].name : i \in DOMAIN PairPool}}

\* The plugin called n is skipped by a process call on the registry ps.
Disabled(ps, n) == \E i \in DOMAIN ps : ps[i].name = n /\ ps[i].enabled = <<FALSE>>

\* new GestureEngine(), twice, over the same plugins directory.
InitPair ==
    /\ \E q \in PairRegistrations :
          /\ registered = [i \in DOMAIN q |-> q[i].name]
          /\ plugins = SortPlugins(q)
          /\ pstate = [n \in {q[i].name : i \in DOMAIN q} |-> FreshStateOf(n)]
          /\ other = [plugins |-> SortPlugins(q),
                      pstate |-> [n \in {q[i].name : i \in DOMAIN q} |-> FreshStateOf(n)],
                      batch |-> <<>>, origin |-> <<>>]
          /\ agree = {q[i].name : i \in DOMAIN q}
    /\ lastCall = [op |-> "loadPlugins"]
    /\ ticks = 0
    /\ batch = <<>>
    /\ state = InitialState
    /\ before = InitialState
    /\ consumed = 0
    /\ particles = NewParticleSystem
    /\ tracker = NewTracker
    /\ loop = NoLoop

\* One tick: process(frames, dt, time) on both engines, same arguments.
PairProcess ==
    /\ ticks < MaxTicks
    /\ \E frames \in FramesPool, dt \in {16}, time \in {ticks + 1} :
          LET r == process(plugins, pstate, frames, dt, time)
              r2 == process(other.plugins, other.pstate, frames, dt, time)
          IN /\ batch' = r.events
             /\ pstate' = r.pstate
             /\ lastCall' = [op |-> "process", frames |-> frames,
                             origin |-> r.origin]
             /\ other' = [other EXCEPT !.pstate = r2.pstate, !.batch = r2.events,
                                       !.origin = r2.origin]
    /\ agree' = {n \in agree : Disabled(plugins, n) <=> Disabled(other.plugins, n)}
    /\ ticks' = ticks + 1
    /\ UNCHANGED <<registered, plugins>>
    /\ UNCHANGED coreVars
    /\ UNCHANGED appVars

\* setPluginEnabled(name, enabled) on both engines, the same call.
PairSetPluginEnabled ==
    /\ ticks < MaxTicks
    /\ \E name \in Range(registered), enabled \in BOOLEAN :
          /\ plugins' = setPluginEnabled(plugins, name, enabled)
          /\ other' = [other EXCEPT !.plugins = setPluginEnabled(other.plugins, name, enabled)]
          /\ lastCall' = [op |-> "setPluginEnabled"]
    /\ UNCHANGED <<registered, pstate, ticks, batch, agree>>
    /\ UNCHANGED coreVars
    /\ UNCHANGED appVars

\* setPluginEnabled(name, enabled) on the second engine only.
PairSetPluginEnabledOther ==
    /\ ticks < MaxTicks
    /\ \E name \in Range(registered), enabled \in BOOLEAN :
          /\ other' = [other EXCEPT !.plugins = setPluginEnabled(other.plugins, name, enabled)]
          /\ lastCall' = [op |-> "setPluginEnabled"]
    /\ UNCHANGED <<registered, plugins, pstate, ticks, batch, agree>>
    /\ UNCHANGED coreVars
    /\ UNCHANGED appVars

NextPair == PairProcess \/ PairSetPluginEnabled \/ PairSetPluginEnabledOther

SpecPair == InitPair /\ [][NextPair]_vars

(***************************************************************************)
(* The engine with the plugins of the repository                           *)
(***************************************************************************)

\* The plugin classes of the plugins directory, in the order of the glob
\* (by file name).
BuiltinPlugins ==
    <<PluginInstance("DualHand", <<"main">>, <<5>>),
      PluginInstance("GestureLabel", <<"before">>, <<0>>),
      PluginInstance("ShapeByGesture", <<"after">>, <<10>>),
      PluginInstance("PinchSpread", <<"main">>, <<20>>),
      PluginInstance("ShakeScatter", <<"main">>, <<30>>),
      PluginInstance("SingleHandMove", <<"main">>, <<10>>)>>

\* The landmarks lm moved by (dx, dy).
Shift(lm, dx, dy) == [k \in DOMAIN lm |-> [x |-> lm[k].x + dx, y |-> lm[k].y + dy]]

\* An open hand and a fist whose centers are (ax, ay) and (bx, by) away from
\* (0.5, 0.75).
TwoHands(ax, ay, bx, by) ==
    <<HandFrameOf(Shift(Hand(500, TRUE, TRUE, TRUE, TRUE, 200, 500), ax, ay)),
      HandFrameOf(Shift(Hand(500, FALSE, FALSE, FALSE, FALSE, 320, 600), bx, by))>>

\* Two hands at the distances 0, 0.05, 0.119, 0.12, 0.3, 0.6, 0.601 and 0.7,
\* along an axis and across; three hands.
DualFrames ==
    {TwoHands(0, 0, 0, 0), TwoHands(0, 0, 30, 40), TwoHands(0, 0, 119, 0),
     TwoHands(0, 0, 72, 96), TwoHands(180, 0, 0, 240), TwoHands(0, 0, 360, -480),
     TwoHands(-300, 0, 301, 0), TwoHands(350, 0, -350, 0)}
    \cup {TwoHands(0, 0, 30, 40) \o <<OpenPalmHand>>}

\* One hand, with the pinch on and next to the thresholds of
\* GestureShapePlugin, and away from the middle of the picture.
SingleFrames ==
    {<<h>> : h \in HandPool}
    \cup {<<WithPinch(OpenPalmHand, q)>> : q \in {199, 200, 800, 801}}
    \cup {<<HandFrameOf(Shift(Hand(500, TRUE, TRUE, TRUE, TRUE, 200, 500), -300, -200))>>}

BuiltinFrames == {<<>>} \cup SingleFrames \cup DualFrames

\* The values of clock.getDelta() in ms: 0 on the first call, a frame later on.
DtPool == {0, 16}

\* new GestureEngine() over the plugins directory of the repository.
InitBuiltin ==
    /\ registered = [i \in DOMAIN BuiltinPlugins |-> BuiltinPlugins[i].name]
    /\ plugins = SortPlugins(BuiltinPlugins)
    /\ pstate = [n \in {BuiltinPlugins[i].name : i \in DOMAIN BuiltinPlugins}
                    |-> FreshStateOf(n)]
    /\ lastCall = [op |-> "loadPlugins"]
    /\ ticks = 0
    /\ other = NoCall
    /\ agree = {}
    /\ batch = <<>>
    /\ state = InitialState
    /\ before = InitialState
    /\ consumed = 0
    /\ particles = NewParticleSystem
    /\ tracker = NewTracker
    /\ loop = NoLoop

\* One tick of the main loop: gestureEngine.process(frames, dt).
BuiltinProcess ==
    /\ ticks < MaxTicks
    /\ \E frames \in BuiltinFrames, dt \in DtPool, time \in {ticks + 1} :
          LET r == process(plugins, pstate, frames, dt, time)
          IN /\ batch' = r.events
             /\ pstate' = r.pstate
             /\ lastCall' = [op |-> "process", frames |-> frames, dt |-> dt,
                             calls |-> r.calls, origin |-> r.origin,
                             pbefore |-> pstate]
    /\ ticks' = ticks + 1
    /\ UNCHANGED <<registered, plugins>>
    /\ UNCHANGED coreVars
    /\ UNCHANGED appVars
    /\ UNCHANGED pairVars

NextBuiltin == BuiltinProcess

SpecBuiltin == InitBuiltin /\ [][NextBuiltin]_vars

(***************************************************************************)
(* The engine and the callers of getPlugins                                *)
(***************************************************************************)

\* getPlugins(): return this.plugins, the array of the engine itself, which
\* holds the plugin instances themselves.
getPlugins(ps) == ps

\* What a caller may do with a GesturePlugin[]: read the names, as main.ts
\* does, or write to the array or to one of its elements.
ListingUses == {"map", "pop", "reverse", "enabled", "priority", "phase"}

\* The array after the caller's use of it.
UseListing(listing, use) ==
    CASE use = "map" -> listing
      [] use = "pop" -> SubSeq(listing, 1, Len(listing) - 1)
      [] use = "reverse" -> [i \in DOMAIN listing |-> listing[Len(listing) + 1 - i]]
      [] use = "enabled" -> [listing EXCEPT ![1].enabled = <<FALSE>>]
      [] use = "priority" -> [listing EXCEPT ![1].priority = <<1000>>]
      [] use = "phase" -> [listing EXCEPT ![1].phase = <<"after">>]

\* A caller takes gestureEngine.getPlugins() and uses it, before the loop
\* starts: what it writes, it writes to the array of the engine.
ListingUse ==
    /\ ticks = 0
    /\ lastCall.op = "loadPlugins"
    /\ \E use \in ListingUses :
          /\ plugins' = UseListing(getPlugins(plugins), use)
          /\ lastCall' = [op |-> "getPlugins", use |-> use]
    /\ UNCHANGED <<registered, pstate, batch, ticks>>
    /\ UNCHANGED coreVars
    /\ UNCHANGED appVars
    /\ UNCHANGED pairVars

NextListing == ListingUse \/ BuiltinProcess

SpecListing == InitBuiltin /\ [][NextListing]_vars

(***************************************************************************)
(* The engine when an update throws                                        *)
(***************************************************************************)

\* p.update(frames, ctx) throws a TypeError: of the repository's plugins only
\* GestureLabelPlugin reads landmarks; with one hand and checkPinch false,
\* classify evaluates lm[20].y, which throws when lm has fewer than 21
\* entries.
Throws(p, st, frames) ==
    /\ p.name = "GestureLabel"
    /\ Len(frames) = 1
    /\ ~checkPinch(st.pinchActive, frames[1].pinch)
    /\ 20 \notin DOMAIN frames[1].landmarks

\* The fields of the plugin after the throw: checkPinch has run.
AfterThrow(st) == [st EXCEPT !.pinchActive = FALSE]

\* The result of a process call that has not begun: as EmptyRun, threw names
\* the plugin whose update threw, if any.
EmptyTry(pst) ==
    [events |-> <<>>, origin |-> <<>>, calls |-> <<>>, pstate |-> pst, threw |-> <<>>]

\* The events gathered so far, as CallPlugin takes them, resp. the result of
\* a call that returned, as the loop carries it on.
Gathered(acc) ==
    [events |-> acc.events, origin |-> acc.origin, calls |-> acc.calls,
     pstate |-> acc.pstate]
Returned(c) ==
    [events |-> c.events, origin |-> c.origin, calls |-> c.calls,
     pstate |-> c.pstate, threw |-> <<>>]

\* The update of p throwing: the call is made, nothing is pushed.
Thrown(acc, p) ==
    [acc EXCEPT !.calls = Append(acc.calls, p.name),
                !.threw = <<p.name>>,
                !.pstate[p.name] = AfterThrow(acc.pstate[p.name])]

\* runPhase(phase) with the exception of an update leaving the loop and the
\* function; called with acc.threw set it does nothing, as the runPhase calls
\* that follow in process are not reached.
RECURSIVE runPhaseThrowing(_, _, _, _, _, _)
runPhaseThrowing(phase, ps, acc, frames, dt, time) ==
    IF ps = <<>> \/ acc.threw # <<>> THEN acc
    ELSE IF Throws(Head(ps), acc.pstate[Head(ps).name], frames) /\ ~Skips(Head(ps), phase)
    THEN Thrown(acc, Head(ps))
    ELSE runPhaseThrowing(phase, Tail(ps),
                          IF Skips(Head(ps), phase) THEN acc
                          ELSE Returned(CallPlugin(Head(ps), Gathered(acc),
                                                   frames, dt, time)),
                          frames, dt, time)

\* GestureEngine.process(frames, dt, time), which has no try/catch: with
\* threw set the call has not returned and events is lost.
processThrowing(ps, pst, frames, dt, time) ==
    LET b == runPhaseThrowing("before", ps, EmptyTry(pst), frames, dt, time)
        m == runPhaseThrowing("main", ps, b, frames, dt, time)
    IN runPhaseThrowing("after", ps, m, frames, dt, time)

\* The landmarks lm cut to their first n entries.
Cut(lm, n) == [k \in 0..(n - 1) |-> lm[k]]

\* Hands with 20 landmarks, open and pinched, and one with none.
ShortHand == HandFrameOf(Cut(Hand(500, TRUE, TRUE, TRUE, TRUE, 200, 500), 20))
ShortPinchHand == HandFrameOf(Cut(Hand(500, TRUE, FALSE, FALSE, FALSE, 400, 310), 20))
NoLandmarksHand == [FistHand EXCEPT !.landmarks = <<>>]

\* What the detector may report, resp. what a caller may hand to process.
RawFrames ==
    {<<>>, <<OpenPalmHand>>, <<PinchHand>>, <<ShortHand>>, <<ShortPinchHand>>,
     <<NoLandmarksHand>>, <<OpenPalmHand, ShortHand>>, <<OpenPalmHand, FistHand>>}

\* HandTracker.update on hands given as frames: if (!lm || lm.length !== 21)
\* continue; and the sort of the frames that are left.
HandTrackerUpdate(hands) ==
    SortFrames(SelectSeq(hands, LAMBDA h : DOMAIN h.landmarks = 0..20))

\* What a process call with the result r leaves behind: the batch reaches the
\* caller only if the call returned.
Outcome(r, via, raw, frames, dt) ==
    /\ batch' = (IF r.threw = <<>> THEN r.events ELSE batch)
    /\ pstate' = r.pstate
    /\ lastCall' = [op |-> IF r.threw = <<>> THEN "process" ELSE "process throws",
                    via |-> via, raw |-> raw, frames |-> frames,
                    dt |-> dt, calls |-> r.calls, origin |-> r.origin,
                    threw |-> r.threw]

\* One frame of the main loop, tracker.update() then process: the call
\* requestAnimationFrame(tick) that follows is reached only if nothing threw.
LoopTick ==
    /\ ticks < MaxTicks
    /\ lastCall.op # "process throws"
    /\ \E raw \in RawFrames, dt \in DtPool :
          Outcome(processThrowing(plugins, pstate, HandTrackerUpdate(raw), dt, ticks + 1),
                  "tracker", raw, HandTrackerUpdate(raw), dt)
    /\ ticks' = ticks + 1
    /\ UNCHANGED <<registered, plugins>>
    /\ UNCHANGED coreVars
    /\ UNCHANGED appVars
    /\ UNCHANGED pairVars

\* gestureEngine.process(frames, dt) called with frames of any origin.
DirectProcess ==
    /\ ticks < MaxTicks
    /\ lastCall.op # "process throws"
    /\ \E frames \in RawFrames, dt \in DtPool :
          Outcome(processThrowing(plugins, pstate, frames, dt, ticks + 1),
                  "direct", frames, frames, dt)
    /\ ticks' = ticks + 1
    /\ UNCHANGED <<registered, plugins>>
    /\ UNCHANGED coreVars
    /\ UNCHANGED appVars
    /\ UNCHANGED pairVars

NextThrowing == LoopTick \/ DirectProcess

SpecThrowing == InitBuiltin /\ [][NextThrowing]_vars

(***************************************************************************)
(* ShakeScatterPlugin on its own                                           *)
(***************************************************************************)

\* No hand, a hand in the middle, the same hand up and to the left, two
\* hands.
ShakeFrames ==
    {<<>>, <<OpenPalmHand>>,
     <<HandFrameOf(Shift(Hand(500, TRUE, TRUE, TRUE, TRUE, 200, 500), -300, -200))>>,
     <<OpenPalmHand, FistHand>>}

\* The values of clock.getDelta() in ms: 0 (two calls within the resolution
\* of the timer), a frame, and a stalled frame of just under and of exactly
\* one second.
ShakeDtPool == {0, 16, 999, 1000}

InitShake ==
    /\ pstate = [n \in {"ShakeScatter"} |-> FreshShakeState]
    /\ registered = <<"ShakeScatter">>
    /\ plugins = <<PluginInstance("ShakeScatter", <<"main">>, <<30>>)>>
    /\ lastCall = [op |-> "new", elapsed |-> <<>>]
    /\ ticks = 0
    /\ other = NoCall
    /\ agree = {}
    /\ batch = <<>>
    /\ state = InitialState
    /\ before = InitialState
    /\ consumed = 0
    /\ particles = NewParticleSystem
    /\ tracker = NewTracker
    /\ loop = NoLoop

\* One call of ShakeScatterPlugin.update(frames, ctx).  elapsed is the sum of
\* the dt of the calls since the last SCATTER (empty before the first one);
\* gap is that sum at the moment of a SCATTER that is not the first.
\* emaBefore and kept are the energyEma and the number of samples of the
\* plugin when the call began, pbefore all its fields.
ShakeUpdate ==
    /\ ticks < MaxShakeTicks
    /\ \E frames \in ShakeFrames, dt \in ShakeDtPool :
          LET st == pstate["ShakeScatter"]
              r == ShakeScatterUpdate(st, frames, [dt |-> dt, time |-> ticks + 1])
              fired == r.events # <<>>
              sum == IF lastCall.elapsed = <<>> THEN <<>>
                     ELSE <<lastCall.elapsed[1] + dt>>
          IN /\ pstate' = [pstate EXCEPT !["ShakeScatter"] = r.st]
             /\ batch' = r.events
             /\ lastCall' = [op |-> "ShakeScatter.update", frames |-> frames,
                             dt |-> dt, fired |-> fired,
                             gap |-> IF fired THEN sum ELSE <<>>,
                             elapsed |-> IF fired THEN <<0>> ELSE sum,
                             emaBefore |-> st.energyEma,
                             kept |-> Len(st.history), pbefore |-> st]
    /\ ticks' = ticks + 1
    /\ UNCHANGED <<registered, plugins>>
    /\ UNCHANGED coreVars
    /\ UNCHANGED appVars
    /\ UNCHANGED pairVars

NextShake == ShakeUpdate

SpecShake == InitShake /\ [][NextShake]_vars

(***************************************************************************)
(* HandTracker on its own                                                  *)
(***************************************************************************)

\* The landmark lists the detector may report: three hands at different
\* places and one list of 20 landmarks.
DetectedLandmarks ==
    {Hand(500, TRUE, TRUE, TRUE, TRUE, 200, 500),
     Shift(Hand(500, FALSE, FALSE, FALSE, FALSE, 320, 600), -300, 0),
     Cut(Hand(500, TRUE, TRUE, TRUE, TRUE, 200, 500), 20)}

\* What detectForVideo may return: up to NumHands hands, each with the
\* category name "Left" or "Right" or none.
Detections ==
    LET hands == {[landmarks |-> lm, handed |-> c] :
                     lm \in DetectedLandmarks, c \in {"Left", "Right", "None"}}
    IN UNION {[1..n -> hands] : n \in 0..NumHands}

\* The time between two calls of update, in ms: a frame of the display and
\* one just over the interval of the throttle.
FrameGaps == {16, 34}

InitTracker ==
    /\ tracker = NewTracker
    /\ lastCall = [op |-> "new HandTracker", now |-> 1000]
    /\ ticks = 0
    /\ loop = NoLoop
    /\ particles = NewParticleSystem
    /\ registered = <<>>
    /\ plugins = <<>>
    /\ pstate = <<>>
    /\ batch = <<>>
    /\ state = InitialState
    /\ before = InitialState
    /\ consumed = 0
    /\ other = NoCall
    /\ agree = {}

\* One call of tracker.update(); now is the value of performance.now().
TrackerTick ==
    /\ ticks < MaxTrackerTicks
    /\ \E gap \in FrameGaps, det \in Detections :
          LET now == lastCall.now + gap
              r == TrackerUpdate(tracker, now, det)
          IN /\ tracker' = r.tr
             /\ lastCall' = [op |-> "tracker.update", now |-> now, det |-> det,
                             throttled |-> Throttled(tracker, now), frames |-> r.frames]
    /\ ticks' = ticks + 1
    /\ UNCHANGED <<registered, plugins, pstate, batch, particles, loop>>
    /\ UNCHANGED coreVars
    /\ UNCHANGED pairVars

NextTracker == TrackerTick

SpecTracker == InitTracker /\ [][NextTracker]_vars

(***************************************************************************)
(* ParticleSystem under any interaction state                              *)
(***************************************************************************)

\* The InteractionState the main loop hands to applyInteraction: spread is
\* in [0, 1] (InteractionCore clamps it), the pulses come in any combination.
DynStates ==
    {[InitialState EXCEPT !.spread = sp, !.scatter = sc, !.converge = cv,
                          !.zoom = z, !.panX = px]
        : sp \in {0, 1000}, sc \in BOOLEAN, cv \in BOOLEAN,
          z \in {1000}, px \in {-15000}}

\* The values of clock.elapsedTime the model passes as t, in ms: sin(2t) is
\* 0 at the first and 1 at the second.
DynTimes == {0, 785}

InitDynamics ==
    /\ particles = NewParticleSystem
    /\ tracker = NewTracker
    /\ loop = NoLoop
    /\ state = InitialState
    /\ before = InitialState
    /\ batch = <<>>
    /\ consumed = 0
    /\ registered = <<>>
    /\ plugins = <<>>
    /\ pstate = <<>>
    /\ lastCall = [op |-> "new ParticleSystem"]
    /\ ticks = 0
    /\ other = NoCall
    /\ agree = {}

\* One frame of the main loop: particles.applyInteraction(state, dt, t).
DynamicsStep ==
    /\ ticks < MaxSteps
    /\ \E s \in DynStates, dt \in DynDts, t \in DynTimes :
          /\ state' = s
          /\ particles' = applyInteraction(particles, s, dt, t)
          /\ lastCall' = [op |-> "applyInteraction", dt |-> dt, pbefore |-> particles]
    /\ ticks' = ticks + 1
    /\ UNCHANGED <<before, batch, consumed, registered, plugins, pstate>>
    /\ UNCHANGED pairVars
    /\ UNCHANGED <<tracker, loop>>

NextDynamics == DynamicsStep

SpecDynamics == InitDynamics /\ [][NextDynamics]_vars

(***************************************************************************)
(* Two ParticleSystems stepped at different rates                          *)
(***************************************************************************)

\* The unchanging target state: no pulse, pan, zoom and spread away from
\* the initial values of the ParticleSystem.
RateTargets ==
    {[InitialState EXCEPT !.panX = px, !.panY = py, !.zoom = z, !.spread = sp]
        : px \in {-15000, 6000}, py \in {9500}, z \in {800, 2500}, sp \in {0, 1000}}

\* particles is stepped with dt = 0.016, other with dt = 0.1; lastCall counts
\* the steps of each.
InitRates ==
    /\ state \in RateTargets
    /\ particles = NewParticleSystem
    /\ tracker = NewTracker
    /\ loop = NoLoop
    /\ other = NewParticleSystem
    /\ lastCall = [op |-> "new ParticleSystem", fine |-> 0, coarse |-> 0]
    /\ before = InitialState
    /\ batch = <<>>
    /\ consumed = 0
    /\ registered = <<>>
    /\ plugins = <<>>
    /\ pstate = <<>>
    /\ ticks = 0
    /\ agree = {}

FineStep ==
    /\ lastCall.fine < FineSteps
    /\ particles' = applyInteraction(particles, state, 16, (lastCall.fine + 1) * 16)
    /\ lastCall' = [op |-> "applyInteraction", fine |-> lastCall.fine + 1,
                    coarse |-> lastCall.coarse]
    /\ UNCHANGED <<state, before, batch, consumed, registered, plugins, pstate, ticks>>
    /\ UNCHANGED pairVars
    /\ UNCHANGED <<tracker, loop>>

CoarseStep ==
    /\ lastCall.coarse < CoarseSteps
    /\ other' = applyInteraction(other, state, 100, (lastCall.coarse + 1) * 100)
    /\ lastCall' = [op |-> "applyInteraction", fine |-> lastCall.fine,
                    coarse |-> lastCall.coarse + 1]
    /\ UNCHANGED <<state, before, batch, consumed, registered, plugins, pstate, ticks>>
    /\ UNCHANGED <<agree, particles, tracker, loop>>

NextRates == FineStep \/ CoarseStep

SpecRates == InitRates /\ [][NextRates]_vars

(***************************************************************************)
(* ShakeScatterPlugin and ParticleSystem under any dt                      *)
(***************************************************************************)

\* The dt a caller may pass, in ms: negative, zero and a frame.
AnyDts == {-16, 0, 16}

\* The decay bases of applyInteraction and updateParticles, in 1/10000:
\* pan, zoom, rotation, spread, scatterVel, scatter and the follow of pos.
DecayBases == {6, 8, 7, 10, 800, 3500, 20}

InitAnyDt ==
    /\ pstate = [n \in {"ShakeScatter"} |-> FreshShakeState]
    /\ registered = <<"ShakeScatter">>
    /\ plugins = <<PluginInstance("ShakeScatter", <<"main">>, <<30>>)>>
    /\ lastCall = [op |-> "new"]
    /\ ticks = 0
    /\ other = NoCall
    /\ agree = {}
    /\ batch = <<>>
    /\ state = InitialState
    /\ before = InitialState
    /\ consumed = 0
    /\ particles = NewParticleSystem
    /\ tracker = NewTracker
    /\ loop = NoLoop

\* ShakeScatterPlugin.update(frames, ctx) with any ctx.dt.
AnyDtShake ==
    /\ ticks < MaxSteps
    /\ \E frames \in ShakeFrames, dt \in AnyDts :
          LET r == ShakeScatterUpdate(pstate["ShakeScatter"], frames,
                                      [dt |-> dt, time |-> ticks + 1])
          IN /\ pstate' = [pstate EXCEPT !["ShakeScatter"] = r.st]
             /\ batch' = r.events
             /\ lastCall' = [op |-> "ShakeScatter.update", frames |-> frames, dt |-> dt]
    /\ ticks' = ticks + 1
    /\ UNCHANGED <<registered, plugins>>
    /\ UNCHANGED coreVars
    /\ UNCHANGED appVars
    /\ UNCHANGED pairVars

\* particles.applyInteraction(s, dt, t) with any dt.
AnyDtApply ==
    /\ ticks < MaxSteps
    /\ \E s \in DynStates, dt \in AnyDts :
          /\ state' = s
          /\ particles' = applyInteraction(particles, s, dt, 0)
          /\ lastCall' = [op |-> "applyInteraction", dt |-> dt, pbefore |-> particles]
    /\ ticks' = ticks + 1
    /\ UNCHANGED <<before, batch, consumed, registered, plugins, pstate>>
    /\ UNCHANGED pairVars
    /\ UNCHANGED <<tracker, loop>>

NextAnyDt == AnyDtShake \/ AnyDtApply

SpecAnyDt == InitAnyDt /\ [][NextAnyDt]_vars

(***************************************************************************)
(* ParticleSystem and its buffers                                          *)
(***************************************************************************)

\* The shape names a state may carry: InteractionCore.update assigns e.name
\* of a SHAPE event as it comes, so next to names of ShapeName one that is
\* no key of targets.
ShapePool == {"SPHERE", "HEART", "TEXT", "STAR"}

\* The states handed to applyInteraction: any shape of the pool, with and
\* without the pulses.
ShapeStates ==
    {[InitialState EXCEPT !.shape = n, !.scatter = p, !.converge = p, !.spread = 1000]
        : n \in ShapePool, p \in BOOLEAN}

\* The colours the UI may pass to setColor.
ColorPool == {"#66ffd8", "#ff0000"}

InitShapes ==
    /\ \E seed \in Seeds : particles = Construct(ParticleCount, seed)
    /\ tracker = NewTracker
    /\ loop = NoLoop
    /\ state = InitialState
    /\ before = InitialState
    /\ batch = <<>>
    /\ consumed = 0
    /\ registered = <<>>
    /\ plugins = <<>>
    /\ pstate = <<>>
    /\ lastCall = [op |-> "new ParticleSystem"]
    /\ ticks = 0
    /\ other = NoCall
    /\ agree = {}

\* particles.applyInteraction(s, dt, t): the call throws out of the loop of
\* updateParticles when s.shape has no buffer, the fields written before the
\* loop keeping their new values.
ShapesApply ==
    /\ ticks < MaxSteps
    /\ \E s \in ShapeStates, dt \in {16}, t \in DynTimes :
          /\ state' = s
          /\ particles' = applyInteraction(particles, s, dt, t)
          /\ lastCall' = [op |-> IF TargetMissing(setShape(particles, s.shape))
                                 THEN "applyInteraction throws" ELSE "applyInteraction",
                          dt |-> dt, t |-> t, pbefore |-> particles]
    /\ ticks' = ticks + 1
    /\ UNCHANGED <<before, batch, consumed, registered, plugins, pstate>>
    /\ UNCHANGED pairVars
    /\ UNCHANGED <<tracker, loop>>

\* particles.setColor(hex), the callback of ui.onColor.
ShapesSetColor ==
    /\ \E hex \in ColorPool :
          /\ hex # particles.color
          /\ particles' = setColor(particles, hex)
          /\ lastCall' = [op |-> "setColor", hex |-> hex, pbefore |-> particles]
    /\ UNCHANGED <<state, before, batch, consumed, registered, plugins, pstate, ticks>>
    /\ UNCHANGED pairVars
    /\ UNCHANGED <<tracker, loop>>

NextShapes == ShapesApply \/ ShapesSetColor

SpecShapes == InitShapes /\ [][NextShapes]_vars

(***************************************************************************)
(* The main loop of main.ts                                                *)
(***************************************************************************)

\* The calls of the loop callback with a swap of update and applyInteraction.
LoopOrder_ApplyBeforeUpdate ==
    <<"tracker.update", "process", "applyInteraction", "setStatus", "update", "render">>

\* The calls of the callback handed to app.start, in the order of its
\* statements.
LoopOrder ==
    <<"tracker.update", "process", "update", "setStatus", "applyInteraction", "render">>

\* The statement the running tick is at.
AtCall(name) ==
    /\ loop.running
    /\ Len(loop.calls) < Len(LoopOrder)
    /\ LoopOrder[Len(loop.calls) + 1] = name

\* The call name is made, with the dt it is given, if any.
Called(name, dt) == [loop EXCEPT !.calls = Append(loop.calls, [name |-> name, dt |-> dt])]

\* What the detector sees in a tick: nothing, one hand up and to the left,
\* two hands 0.7 apart of which the detector reports the Right one first.
LoopDetections ==
    {<<>>,
     <<[landmarks |-> Shift(Hand(500, TRUE, TRUE, TRUE, TRUE, 200, 500), -300, -200),
        handed |-> "Right"]>>,
     <<[landmarks |-> Shift(Hand(500, TRUE, TRUE, TRUE, TRUE, 200, 500), 350, 0),
        handed |-> "Right"],
       [landmarks |-> Shift(Hand(500, FALSE, FALSE, FALSE, FALSE, 320, 600), -350, 0),
        handed |-> "Left"]>>}

\* The time from one tick to the next, in ms.
LoopGaps == {16, 100}

\* The object main.ts builds for ui.setStatus.
StatusOf(frames, s) ==
    [handCount |-> Len(frames), mode |-> s.mode, gesture |-> s.gestureLabel,
     spread |-> s.spread, zoom |-> s.zoom, rotation |-> s.rotation,
     panX |-> s.panX, panY |-> s.panY, shakeEnergy |-> s.shakeEnergy,
     scatter |-> s.scatter, converge |-> s.converge, shape |-> s.shape]

\* main() up to and including app.start(...): everything is constructed and
\* the first tick is about to run.
InitLoop ==
    /\ registered = [i \in DOMAIN BuiltinPlugins |-> BuiltinPlugins[i].name]
    /\ plugins = SortPlugins(BuiltinPlugins)
    /\ pstate = [n \in {BuiltinPlugins[i].name : i \in DOMAIN BuiltinPlugins}
                    |-> FreshStateOf(n)]
    /\ lastCall = [op |-> "app.start"]
    /\ ticks = 0
    /\ other = NoCall
    /\ agree = {}
    /\ batch = <<>>
    /\ state = InitialState
    /\ before = InitialState
    /\ consumed = 0
    /\ particles = NewParticleSystem
    /\ tracker = NewTracker
    /\ loop = [NoLoop EXCEPT !.armed = TRUE]

\* tick(): const dt = this.clock.getDelta(); const t = this.clock.elapsedTime;
\* getDelta returns 0 on its first call, which starts the clock.
TickBegin ==
    /\ loop.armed /\ ~loop.running
    /\ loop.tick < MaxTicks
    /\ \E gap \in LoopGaps :
          LET dt == IF loop.tick = 0 THEN 0 ELSE gap
          IN loop' = [loop EXCEPT !.tick = loop.tick + 1, !.running = TRUE,
                                  !.armed = FALSE, !.calls = <<>>,
                                  !.now = loop.now + dt, !.dt = dt, !.t = loop.t + dt]
    /\ lastCall' = [op |-> "tick"]
    /\ UNCHANGED <<registered, plugins, pstate, ticks, batch, particles, tracker>>
    /\ UNCHANGED coreVars
    /\ UNCHANGED pairVars

\* const frames = tracker.update();
TickTrack ==
    /\ AtCall("tracker.update")
    /\ \E det \in LoopDetections :
          LET r == TrackerUpdate(tracker, loop.now, det)
          IN /\ tracker' = r.tr
             /\ loop' = [Called("tracker.update", <<>>) EXCEPT !.frames = r.frames]
    /\ lastCall' = [op |-> "tracker.update"]
    /\ UNCHANGED <<registered, plugins, pstate, ticks, batch, particles>>
    /\ UNCHANGED coreVars
    /\ UNCHANGED pairVars

\* const events = gestureEngine.process(frames, dt); no update of a plugin of
\* the repository throws on frames of the tracker.
TickProcess ==
    /\ AtCall("process")
    /\ LET r == process(plugins, pstate, loop.frames, loop.dt, loop.now)
       IN /\ pstate' = r.pstate
          /\ loop' = [Called("process", <<loop.dt>>) EXCEPT !.events = r.events]
    /\ lastCall' = [op |-> "process"]
    /\ ticks' = ticks + 1
    /\ UNCHANGED <<registered, plugins, batch, particles, tracker>>
    /\ UNCHANGED coreVars
    /\ UNCHANGED pairVars

\* interactionCore.update(events);
TickUpdate ==
    /\ AtCall("update")
    /\ before' = state
    /\ batch' = loop.events
    /\ state' = update(state, loop.events)
    /\ loop' = Called("update", <<>>)
    /\ lastCall' = [op |-> "update"]
    /\ UNCHANGED <<registered, plugins, pstate, ticks, consumed, particles, tracker>>
    /\ UNCHANGED pairVars

\* ui.setStatus({ handCount: frames.length, mode: interactionCore.state.mode, ... });
TickStatus ==
    /\ AtCall("setStatus")
    /\ loop' = [Called("setStatus", <<>>) EXCEPT !.status = <<StatusOf(loop.frames, state)>>]
    /\ lastCall' = [op |-> "setStatus"]
    /\ UNCHANGED <<registered, plugins, pstate, ticks, batch, particles, tracker>>
    /\ UNCHANGED coreVars
    /\ UNCHANGED pairVars

\* app.particles.applyInteraction(interactionCore.state, dt, t); the shapes
\* the plugins of the repository emit have a buffer, so the call returns.
TickApply ==
    /\ AtCall("applyInteraction")
    /\ ~TargetMissing(setShape(particles, state.shape))
    /\ particles' = applyInteraction(particles, state, loop.dt, loop.t)
    /\ loop' = [Called("applyInteraction", <<loop.dt>>) EXCEPT !.applied = <<state>>]
    /\ lastCall' = [op |-> "applyInteraction"]
    /\ UNCHANGED <<registered, plugins, pstate, ticks, batch, tracker>>
    /\ UNCHANGED coreVars
    /\ UNCHANGED pairVars

\* app.render(); then, back in tick, requestAnimationFrame(tick).
TickRender ==
    /\ AtCall("render")
    /\ loop' = [Called("render", <<>>) EXCEPT !.running = FALSE, !.armed = TRUE]
    /\ lastCall' = [op |-> "render"]
    /\ UNCHANGED <<registered, plugins, pstate, ticks, batch, particles, tracker>>
    /\ UNCHANGED coreVars
    /\ UNCHANGED pairVars

\* The callback of ui.onColor, run between two ticks.
LoopSetColor ==
    /\ ~loop.running
    /\ \E hex \in ColorPool :
          /\ hex # particles.color
          /\ particles' = setColor(particles, hex)
    /\ lastCall' = [op |-> "setColor"]
    /\ UNCHANGED <<registered, plugins, pstate, ticks, batch, tracker, loop>>
    /\ UNCHANGED coreVars
    /\ UNCHANGED pairVars

NextLoop ==
    \/ TickBegin \/ TickTrack \/ TickProcess \/ TickUpdate \/ TickStatus
    \/ TickApply \/ TickRender \/ LoopSetColor

SpecLoop == InitLoop /\ [][NextLoop]_vars

(***************************************************************************)
(* The main loop over the plugins of the repository, with the switches     *)
(***************************************************************************)

\* What tracker.update returns in a tick: no hand; one hand in the middle,
\* pinching, up and to the left; two hands 0.05 and 0.7 apart; three hands.
GestureFrames ==
    {<<>>, <<OpenPalmHand>>, <<WithPinch(OpenPalmHand, 801)>>,
     <<HandFrameOf(Shift(Hand(500, TRUE, TRUE, TRUE, TRUE, 200, 500), -300, -200))>>,
     TwoHands(0, 0, 30, 40), TwoHands(350, 0, -350, 0),
     TwoHands(0, 0, 30, 40) \o <<OpenPalmHand>>}

\* The plugins whose checkbox of the panel the user changes.
SwitchPool == {"SingleHandMove", "DualHand", "GestureLabel"}

\* The entry of the plugin called name in ps.
EntryNamed(ps, name) == ps[CHOOSE i \in DOMAIN ps : ps[i].name = name]

\* cb.checked of the checkbox of name: true when bound, then what the last
\* change left, which is what the plugin's flag was set to.
Checked(ps, name) == OrElse(EntryNamed(ps, name).enabled, TRUE)

\* A tick with these frames has a plugin that is switched on return a MODE
\* event: SingleHandMove for one hand, DualHand for two or more.
ModeGiven(ps, frames) ==
    \/ Len(frames) = 1 /\ Checked(ps, "SingleHandMove")
    \/ Len(frames) >= 2 /\ Checked(ps, "DualHand")

\* main() up to and including app.start(...).  lastCall.seen: a tick with at
\* least one hand has run; lastCall.moded: a tick with ModeGiven has run.
InitGesture ==
    /\ registered = [i \in DOMAIN BuiltinPlugins |-> BuiltinPlugins[i].name]
    /\ plugins = SortPlugins(BuiltinPlugins)
    /\ pstate = [n \in {BuiltinPlugins[i].name : i \in DOMAIN BuiltinPlugins}
                    |-> FreshStateOf(n)]
    /\ lastCall = [op |-> "app.start", seen |-> FALSE, moded |-> FALSE]
    /\ ticks = 0
    /\ other = NoCall
    /\ agree = {}
    /\ batch = <<>>
    /\ state = InitialState
    /\ before = InitialState
    /\ consumed = 0
    /\ particles = NewParticleSystem
    /\ tracker = NewTracker
    /\ loop = NoLoop

\* The rest of the callback once process has returned r: update(events),
\* setStatus, applyInteraction(interactionCore.state, dt, t).
GestureRest(r, frames, dt, t) ==
    /\ pstate' = r.pstate
    /\ batch' = r.events
    /\ before' = state
    /\ state' = update(state, r.events)
    /\ particles' = applyInteraction(particles, update(state, r.events), dt, t)
    /\ loop' = [loop EXCEPT !.tick = ticks + 1, !.dt = dt, !.t = t,
                            !.status = <<StatusOf(frames, update(state, r.events))>>]
    /\ lastCall' = [op |-> "tick", frames |-> frames, dt |-> dt,
                    seen |-> lastCall.seen \/ frames # <<>>,
                    moded |-> lastCall.moded \/ ModeGiven(plugins, frames),
                    origin |-> r.origin,
                    enabled |-> {n \in SwitchPool : Checked(plugins, n)},
                    pparticles |-> particles]

\* One tick of the main loop, from the frames tracker.update returned on:
\* process, update, setStatus, applyInteraction, render.  getDelta gives 0 in
\* the first tick and a frame of 16 ms later on.
GestureTick ==
    /\ ticks < MaxGestureTicks
    /\ \E frames \in GestureFrames :
          LET dt == IF ticks = 0 THEN 0 ELSE 16
              t == ticks * 16
          IN GestureRest(process(plugins, pstate, frames, dt, t), frames, dt, t)
    /\ ticks' = ticks + 1
    /\ UNCHANGED <<registered, plugins, consumed, tracker>>
    /\ UNCHANGED pairVars

\* The callback of ui.onPluginSwitch, run between two ticks when the user
\* changes a checkbox: gestureEngine.setPluginEnabled(name, cb.checked).
GestureSwitch ==
    /\ ticks < MaxGestureTicks
    /\ \E name \in SwitchPool :
          /\ plugins' = setPluginEnabled(plugins, name, ~Checked(plugins, name))
          /\ lastCall' = [op |-> "setPluginEnabled", name |-> name,
                          seen |-> lastCall.seen, moded |-> lastCall.moded]
    /\ UNCHANGED <<registered, pstate, ticks, batch>>
    /\ UNCHANGED coreVars
    /\ UNCHANGED appVars
    /\ UNCHANGED pairVars

NextGesture == GestureTick \/ GestureSwitch

SpecGesture == InitGesture /\ [][NextGesture]_vars

(***************************************************************************)
(* GestureLabelPlugin on its own                                           *)
(***************************************************************************)

\* The frame lists fed to the plugin: no hand, each hand of the pool alone,
\* two hands.
LabelFrames ==
    {<<>>, <<OpenPalmHand, FistHand>>} \cup {<<h>> : h \in HandPool \cup PinchEdgeHands}

\* The raw classification of the tick: what classify returns for a single
\* hand, "-" in a tick with no or several hands, where classify is not called.
RawOf(st, frames) == IF Len(frames) = 1 THEN classify(st, frames[1]) ELSE "-"

\* The number of consecutive ticks, the current one included, whose raw
\* classification was raw, counted up to HOLD_THRESHOLD.
RunAfter(call, raw) ==
    IF call.op = "GestureLabel.update" /\ call.raw = raw
    THEN IF call.run < HOLD_THRESHOLD THEN call.run + 1 ELSE call.run
    ELSE 1

InitLabel ==
    /\ pstate = [n \in {"GestureLabel"} |-> FreshLabelState]
    /\ registered = <<"GestureLabel">>
    /\ plugins = <<PluginInstance("GestureLabel", <<"before">>, <<0>>)>>
    /\ lastCall = [op |-> "new"]
    /\ ticks = 0
    /\ other = NoCall
    /\ agree = {}
    /\ batch = <<>>
    /\ state = InitialState
    /\ before = InitialState
    /\ consumed = 0
    /\ particles = NewParticleSystem
    /\ tracker = NewTracker
    /\ loop = NoLoop

\* One call of GestureLabelPlugin.update(frames).
LabelUpdate ==
    /\ \E frames \in LabelFrames :
          LET st == pstate["GestureLabel"]
              r == GestureLabelUpdate(st, frames)
              raw == RawOf(st, frames)
          IN /\ pstate' = [pstate EXCEPT !["GestureLabel"] = r.st]
             /\ batch' = r.events
             /\ lastCall' = [op |-> "GestureLabel.update", frames |-> frames,
                             raw |-> raw, run |-> RunAfter(lastCall, raw),
                             pbefore |-> st]
    /\ UNCHANGED <<registered, plugins, ticks>>
    /\ UNCHANGED coreVars
    /\ UNCHANGED appVars
    /\ UNCHANGED pairVars

NextLabel == LabelUpdate

SpecLabel == InitLabel /\ [][NextLabel]_vars

(***************************************************************************)
(* Properties of InteractionCore.update                                    *)
(***************************************************************************)

HasType(b, t) == \E i \in DOMAIN b : b[i].type = t

\* The last event of type t in b (b holds one).
LastOf(b, t) ==
    b[CHOOSE i \in DOMAIN b :
        /\ b[i].type = t
        /\ \A j \in DOMAIN b : b[j].type = t => j <= i]

\* C1: after update(batch), state.scatter is true iff the batch holds a
\* SCATTER event and state.converge is true iff it holds a CONVERGE event,
\* whatever the state was before; in particular an empty batch leaves both
\* false and a pulse set by the previous update is gone unless re-emitted.
C1_PulseIffInBatch ==
    /\ state.scatter <=> HasType(batch, "SCATTER")
    /\ state.converge <=> HasType(batch, "CONVERGE")
    /\ batch = <<>> => ~state.scatter /\ ~state.converge
    /\ before.scatter /\ ~HasType(batch, "SCATTER") => ~state.scatter
    /\ before.converge /\ ~HasType(batch, "CONVERGE") => ~state.converge

\* A scatter pulse of the previous update is gone after an update whose
\* non-empty batch holds CONVERGE but no SCATTER.
C1_Witness ==
    /\ before.scatter /\ ~before.converge
    /\ HasType(batch, "CONVERGE") /\ ~HasType(batch, "SCATTER")
    /\ state.converge /\ ~state.scatter

\* C2: for every continuous kind, when the batch holds events of that kind
\* the matching field holds what the last of them carries (MOVE through the
\* affine maps, SPREAD and IDLE through clamp01).
C2_LastEventWins ==
    /\ HasType(batch, "MODE") => state.mode = LastOf(batch, "MODE").mode
    /\ HasType(batch, "MOVE") =>
          /\ state.panX = (LastOf(batch, "MOVE").nx - 500) * 30
          /\ state.panY = -((LastOf(batch, "MOVE").ny - 500) * 19)
    /\ HasType(batch, "ZOOM") => state.zoom = LastOf(batch, "ZOOM").value
    /\ HasType(batch, "ROTATE") => state.rotation = LastOf(batch, "ROTATE").angle
    /\ HasType(batch, "SPREAD") =>
          state.spread = Max(0, Min(1000, LastOf(batch, "SPREAD").value))
    /\ HasType(batch, "SHAPE") => state.shape = LastOf(batch, "SHAPE").name
    /\ HasType(batch, "IDLE") =>
          state.stillness = Max(0, Min(1000, LastOf(batch, "IDLE").stillness))
    /\ HasType(batch, "GESTURE_LABEL") =>
          state.gestureLabel = LastOf(batch, "GESTURE_LABEL").label
    /\ HasType(batch, "SHAKE_ENERGY") =>
          state.shakeEnergy = LastOf(batch, "SHAKE_ENERGY").value

\* MODE SINGLE followed, later in the same batch, by MODE DUAL.
C2_Witness ==
    /\ \E i, j \in DOMAIN batch :
          /\ i < j
          /\ batch[i] = [type |-> "MODE", mode |-> "SINGLE"]
          /\ batch[j] = [type |-> "MODE", mode |-> "DUAL"]
          /\ \A k \in DOMAIN batch : k > j => batch[k].type # "MODE"
    /\ state.mode = "DUAL"

\* C3: spread and stillness are in [0,1] in every reachable state, and zoom,
\* rotation and shakeEnergy hold exactly the value of the last event of
\* their kind, also outside [0,1].
C3_ClampedAndUnclamped ==
    /\ state.spread \in 0..1000
    /\ state.stillness \in 0..1000
    /\ HasType(batch, "ZOOM") => state.zoom = LastOf(batch, "ZOOM").value
    /\ HasType(batch, "ROTATE") => state.rotation = LastOf(batch, "ROTATE").angle
    /\ HasType(batch, "SHAKE_ENERGY") =>
          state.shakeEnergy = LastOf(batch, "SHAKE_ENERGY").value

\* A SPREAD below 0, an IDLE above 1 and a ZOOM above 1 in one batch.
C3_Witness ==
    /\ HasType(batch, "SPREAD") /\ LastOf(batch, "SPREAD").value < 0
    /\ HasType(batch, "IDLE") /\ LastOf(batch, "IDLE").stillness > 1000
    /\ HasType(batch, "ZOOM") /\ LastOf(batch, "ZOOM").value > 1000
    /\ state.spread = 0 /\ state.stillness = 1000 /\ state.zoom = 2500

\* C4: a continuous field whose kind does not occur in the batch keeps the
\* value it had before the call; an empty batch changes only the pulses.
C4_ContinuousFieldsPersist ==
    /\ ~HasType(batch, "MODE") => state.mode = before.mode
    /\ ~HasType(batch, "MOVE") =>
          state.panX = before.panX /\ state.panY = before.panY
    /\ ~HasType(batch, "ZOOM") => state.zoom = before.zoom
    /\ ~HasType(batch, "ROTATE") => state.rotation = before.rotation
    /\ ~HasType(batch, "SPREAD") => state.spread = before.spread
    /\ ~HasType(batch, "SHAPE") => state.shape = before.shape
    /\ ~HasType(batch, "IDLE") => state.stillness = before.stillness
    /\ ~HasType(batch, "GESTURE_LABEL") =>
          state.gestureLabel = before.gestureLabel
    /\ ~HasType(batch, "SHAKE_ENERGY") => state.shakeEnergy = before.shakeEnergy
    /\ batch = <<>> =>
          state = [before EXCEPT !.scatter = FALSE, !.converge = FALSE]

\* An empty batch after an update that set a mode, a spread, a shape and a
\* pulse: the three fields are kept, the pulse is gone.
C4_Witness ==
    /\ batch = <<>>
    /\ before.mode = "DUAL" /\ before.spread = 400 /\ before.scatter
    /\ state.mode = "DUAL" /\ state.spread = 400 /\ ~state.scatter

(***************************************************************************)
(* Properties of GestureEngine                                             *)
(***************************************************************************)

\* The registry entry of the plugin called n.
PluginNamed(n) == plugins[CHOOSE i \in DOMAIN plugins : plugins[i].name = n]

PhaseOf(n) == IF PluginNamed(n).phase = <<>> THEN "main" ELSE PluginNamed(n).phase[1]

PhaseRank(n) ==
    CASE PhaseOf(n) = "before" -> 1 [] PhaseOf(n) = "main" -> 2 [] PhaseOf(n) = "after" -> 3

PriorityOf(n) ==
    IF PluginNamed(n).priority = <<>> THEN 100 ELSE PluginNamed(n).priority[1]

\* The position at which loadPlugins pushed the plugin called n.
RegistrationIndex(n) == CHOOSE i \in DOMAIN registered : registered[i] = n

\* The events of the last batch that the plugin called n returned.
EventsOf(b, origin, n) ==
    LET I == {i \in DOMAIN origin : origin[i] = n}
    IN IF I = {} THEN <<>>
       ELSE SubSeq(b, CHOOSE i \in I : \A j \in I : i <= j,
                      CHOOSE i \in I : \A j \in I : j <= i)

\* C5: in the batch process returns, the events of a 'before' plugin precede
\* those of a 'main' plugin, which precede those of an 'after' plugin,
\* whatever the priorities; the events of one plugin are contiguous and in
\* the order in which its update returned them.
C5_PhasesInOrder ==
    lastCall.op = "process" =>
        LET o == lastCall.origin
        IN /\ Len(o) = Len(batch)
           /\ \A i, j \in DOMAIN o : i < j => PhaseRank(o[i]) <= PhaseRank(o[j])
           /\ \A i, j, k \in DOMAIN o : i < k /\ k < j /\ o[i] = o[j] => o[k] = o[i]
           /\ \A n \in Range(o) :
                 EventsOf(batch, o, n) =
                    PluginUpdate(PluginNamed(n), lastCall.pbefore[n], lastCall.frames,
                                 [dt |-> lastCall.dt, time |-> lastCall.time]).events

\* A before plugin of priority 50, a main plugin of priority 5 and an after
\* plugin of priority 10 returned several events each.
C5_Witness ==
    /\ lastCall.op = "process"
    /\ lastCall.calls = <<"Before50", "Main5", "After10">>
    /\ [i \in DOMAIN plugins |-> plugins[i].name] = <<"Main5", "After10", "Before50">>
    /\ Len(batch) = 12
    /\ lastCall.origin[4] = "Before50" /\ lastCall.origin[5] = "Main5"
    /\ lastCall.origin[9] = "After10"

\* C6: the registry is the registered plugins in ascending priority (none
\* counts as 100), equal priorities in registration order, in every state;
\* within one phase (none counts as main) process invokes the plugins in
\* that order.
C6_PriorityThenRegistration ==
    /\ Len(plugins) = Len(registered)
    /\ {plugins[i].name : i \in DOMAIN plugins} = Range(registered)
    /\ \A i, j \in DOMAIN plugins :
          i < j =>
            \/ PriorityOf(plugins[i].name) < PriorityOf(plugins[j].name)
            \/ /\ PriorityOf(plugins[i].name) = PriorityOf(plugins[j].name)
               /\ RegistrationIndex(plugins[i].name) < RegistrationIndex(plugins[j].name)
    /\ lastCall.op = "process" =>
          \A i, j \in DOMAIN lastCall.calls :
             LET a == lastCall.calls[i]
                 b == lastCall.calls[j]
             IN i < j /\ PhaseOf(a) = PhaseOf(b) =>
                   \/ PriorityOf(a) < PriorityOf(b)
                   \/ /\ PriorityOf(a) = PriorityOf(b)
                      /\ RegistrationIndex(a) < RegistrationIndex(b)

\* The second process call of an engine whose plugins were pushed as Bare
\* (no priority, no phase), Main100, Main5: Main5 runs first, then the two
\* of priority 100 in registration order.
C6_Witness ==
    /\ registered = <<"Bare", "Main100", "Main5">>
    /\ lastCall.op = "process"
    /\ ticks = 2
    /\ lastCall.calls = <<"Main5", "Bare", "Main100">>

\* C7: after a process call, a plugin whose flag is false was not invoked,
\* has no event in the batch and has the private fields it had before the
\* call; every other plugin was invoked exactly once.
C7_DisabledSkippedOthersOnce ==
    lastCall.op = "process" =>
        \A i \in DOMAIN plugins :
            LET n == plugins[i].name
                k == Cardinality({c \in DOMAIN lastCall.calls : lastCall.calls[c] = n})
            IN IF plugins[i].enabled = <<FALSE>>
               THEN /\ k = 0
                    /\ n \notin Range(lastCall.origin)
                    /\ pstate[n] = lastCall.pbefore[n]
               ELSE /\ k = 1
                    /\ pstate[n].calls = lastCall.pbefore[n].calls + 1

\* The second process call, with hands in the frame: a plugin that ran in
\* the first call and was disabled since keeps its fields, one whose flag
\* was never set runs for the second time.
C7_Witness ==
    /\ lastCall.op = "process"
    /\ ticks = 2
    /\ lastCall.frames # <<>>
    /\ \E i, j \in DOMAIN plugins :
          /\ plugins[i].enabled = <<FALSE>>
          /\ lastCall.pbefore[plugins[i].name].calls = 1
          /\ pstate[plugins[i].name].calls = 1
          /\ plugins[j].enabled = <<>>
          /\ pstate[plugins[j].name].calls = 2

\* C8: a setPluginEnabled(name, flag) step sets the flag of the plugin of
\* that name, leaves every other registry entry, the membership, the order
\* and the plugins' private fields as they were, and changes nothing when no
\* plugin has that name; a process step leaves every flag as it is and skips
\* exactly the plugins whose flag is false when it begins.
C8_SetPluginEnabled ==
    [][/\ (lastCall'.op = "setPluginEnabled" /\ lastCall' # lastCall) =>
             /\ DOMAIN plugins' = DOMAIN plugins
             /\ \A i \in DOMAIN plugins :
                   IF plugins[i].name = lastCall'.name
                   THEN plugins'[i] = [plugins[i] EXCEPT !.enabled = <<lastCall'.enabled>>]
                   ELSE plugins'[i] = plugins[i]
             /\ lastCall'.name \notin Range(registered) => plugins' = plugins
             /\ pstate' = pstate /\ registered' = registered /\ batch' = batch
       /\ lastCall'.op = "process" =>
             /\ plugins' = plugins
             /\ \A i \in DOMAIN plugins :
                   plugins[i].enabled = <<FALSE>>
                      <=> plugins[i].name \notin Range(lastCall'.calls)
      ]_vars

\* A plugin that was disabled during the first process call and enabled
\* again before the second: it ran in the second call only, while another
\* plugin ran in both.
C8_Witness ==
    /\ lastCall.op = "process"
    /\ ticks = 2
    /\ \E i, j \in DOMAIN plugins :
          /\ plugins[i].enabled = <<TRUE>>
          /\ lastCall.pbefore[plugins[i].name].calls = 0
          /\ pstate[plugins[i].name].calls = 1
          /\ plugins[j].enabled = <<>>
          /\ pstate[plugins[j].name].calls = 2

\* C9: two engines fed the same frames, dt and time in every tick, whose
\* registries differ only in the enabled flags of other plugins, get the same
\* events from a plugin in every tick and leave it in the same state: for
\* every plugin that both engines have skipped in the same ticks so far, the
\* events it contributed to the two batches of the last tick are equal, and so
\* is its state after the tick.
C9_EventsIndependentOfOtherPlugins ==
    lastCall.op = "process" =>
        \A n \in agree :
            /\ EventsOf(batch, lastCall.origin, n) = EventsOf(other.batch, other.origin, n)
            /\ pstate[n] = other.pstate[n]

\* Second tick with a hand in view: a plugin skipped in the same ticks by both
\* engines emits events in both, after another plugin that emitted events
\* ahead of it in the first engine and was skipped by the second, so that the
\* two batches differ.
C9_Witness ==
    /\ lastCall.op = "process"
    /\ ticks = 2
    /\ lastCall.frames # <<>>
    /\ batch # other.batch
    /\ \E i, j \in DOMAIN plugins :
          /\ plugins[j].name \in agree
          /\ EventsOf(batch, lastCall.origin, plugins[j].name) # <<>>
          /\ EventsOf(other.batch, other.origin, plugins[j].name) # <<>>
          /\ ~Disabled(plugins, plugins[i].name)
          /\ Disabled(other.plugins, plugins[i].name)
          /\ \E a, b \in DOMAIN lastCall.origin :
                /\ a < b
                /\ lastCall.origin[a] = plugins[i].name
                /\ lastCall.origin[b] = plugins[j].name

(***************************************************************************)
(* Properties of GestureLabelPlugin                                        *)
(***************************************************************************)

\* C10: after a single-hand tick, the reported label differs from the one
\* reported before only if it is the raw classification and that label has
\* been the raw classification of at least 4 consecutive ticks; a raw label
\* that differs from the reported one and has lasted 4 or more consecutive
\* ticks is reported; the label emitted is the reported one, so until the
\* switch the previous label is emitted again.
C10_SwitchOnlyAfterFourFrames ==
    (lastCall.op = "GestureLabel.update" /\ Len(lastCall.frames) = 1) =>
        LET old == lastCall.pbefore.lastGesture
            new == pstate["GestureLabel"].lastGesture
        IN /\ new # old => new = lastCall.raw /\ lastCall.run >= 4
           /\ (lastCall.raw # old /\ lastCall.run >= 4) => new = lastCall.raw
           /\ batch = <<[type |-> "GESTURE_LABEL", label |-> new]>>

\* C11: every call of GestureLabelPlugin.update returns exactly one event, a
\* GESTURE_LABEL; its label is NONE when the call got no hand and DUAL_HANDS
\* when it got two or more, in that very call, whatever label was reported
\* before.
C11_OneLabelPerCallHandCountForces ==
    lastCall.op = "GestureLabel.update" =>
        /\ Len(batch) = 1
        /\ batch[1].type = "GESTURE_LABEL"
        /\ Len(lastCall.frames) = 0 => batch[1].label = "NONE"
        /\ Len(lastCall.frames) >= 2 => batch[1].label = "DUAL_HANDS"

\* A call without a hand right after OPEN_PALM was the reported label, while
\* a debounce count is pending, answers NONE.
C11_Witness ==
    /\ lastCall.op = "GestureLabel.update"
    /\ lastCall.frames = <<>>
    /\ lastCall.pbefore.lastGesture = "OPEN_PALM"
    /\ lastCall.pbefore.holdFrames > 0
    /\ batch = <<[type |-> "GESTURE_LABEL", label |-> "NONE"]>>

\* The pinch values between the two thresholds, both included.
PinchBand == {650, 700, 750, 820}

\* C12: pinchActive changes only in a single-hand call; from inactive it
\* becomes active exactly when pinch > 0.82, from active it becomes inactive
\* exactly when pinch < 0.65, and a pinch in [0.65, 0.82] leaves it as it was;
\* whenever the gate is active after the call the raw label is PINCH, whatever
\* the fingers show; and with a pinch in [0.65, 0.82] the raw label is the same
\* for every other pinch of that interval.
C12_PinchGateHysteresis ==
    lastCall.op = "GestureLabel.update" =>
        LET was == lastCall.pbefore.pinchActive
            is == pstate["GestureLabel"].pinchActive
        IN IF Len(lastCall.frames) # 1 THEN is = was
           ELSE LET h == lastCall.frames[1]
                IN /\ ~was => (is <=> h.pinch > 820)
                   /\ was => (~is <=> h.pinch < 650)
                   /\ (h.pinch >= 650 /\ h.pinch <= 820) => is = was
                   /\ is => lastCall.raw = "PINCH"
                   /\ h.pinch \in PinchBand =>
                         \A q \in PinchBand :
                             classify(lastCall.pbefore, WithPinch(h, q)) = lastCall.raw

\* The gate was active, the hand shows four raised fingers with a pinch of
\* 0.75, and the raw label is PINCH, not yet reported.
C12_Witness ==
    /\ lastCall.op = "GestureLabel.update"
    /\ lastCall.frames = <<HalfPinchHand>>
    /\ lastCall.pbefore.pinchActive
    /\ pstate["GestureLabel"].pinchActive
    /\ lastCall.raw = "PINCH"
    /\ pstate["GestureLabel"].lastGesture # "PINCH"

(***************************************************************************)
(* Properties of the plugins of the repository                             *)
(***************************************************************************)

\* The events of the last batch of type t that the plugin called n returned.
TypedFrom(n, t) ==
    SelectSeq(EventsOf(batch, lastCall.origin, n), LAMBDA e : e.type = t)

\* The squared distance between the centers of the first two hands of the
\* last call.
DistSq ==
    LET a == lastCall.frames[1].center
        b == lastCall.frames[2].center
    IN (a.x - b.x) * (a.x - b.x) + (a.y - b.y) * (a.y - b.y)

\* C13: in a tick with two or more hands DualHand returns CONVERGE exactly
\* when the distance between the centers of the first two hands is below 0.12
\* and SCATTER exactly when it is above 0.6, each at most once and never both;
\* from 0.12 to 0.6, both included, it returns neither.
C13_DualHandPulses ==
    (lastCall.op = "process" /\ Len(lastCall.frames) >= 2) =>
        LET nc == Len(TypedFrom("DualHand", "CONVERGE"))
            ns == Len(TypedFrom("DualHand", "SCATTER"))
        IN /\ nc = (IF DistSq < 120 * 120 THEN 1 ELSE 0)
           /\ ns = (IF DistSq > 600 * 600 THEN 1 ELSE 0)
           /\ nc + ns <= 1
           /\ (DistSq >= 120 * 120 /\ DistSq <= 600 * 600) => nc + ns = 0

\* Two hands exactly 0.6 apart, across the picture: DualHand has returned its
\* three continuous events and no pulse.
C13_Witness ==
    /\ lastCall.op = "process"
    /\ Len(lastCall.frames) = 2
    /\ DistSq = 600 * 600
    /\ lastCall.frames[1].center.y # lastCall.frames[2].center.y
    /\ Len(EventsOf(batch, lastCall.origin, "DualHand")) = 3

\* C14: a SCATTER of ShakeScatter that is not its first comes at least one
\* second of simulated time after the one before it, the time being the sum
\* of the dt of the calls in between and of the call that returns it,
\* whatever dt the calls get.
C14_OneScatterPerSecond ==
    (lastCall.op = "ShakeScatter.update" /\ lastCall.fired /\ lastCall.gap # <<>>) =>
        lastCall.gap[1] >= 1000

TypesOf(b) == [i \in DOMAIN b |-> b[i].type]

\* C15: with every plugin of the repository enabled the batch of a tick is
\* laid out by the number of hands.  No hand: the single event GESTURE_LABEL
\* NONE.  One hand: GESTURE_LABEL, MODE SINGLE, MOVE to the center of the
\* hand, ZOOM 0.8 + size, SPREAD, then SCATTER or nothing, then SHAPE, and
\* nothing else.  Two or more hands: GESTURE_LABEL DUAL_HANDS, MODE DUAL,
\* ZOOM, ROTATE, then CONVERGE, SCATTER or nothing, and nothing else.
C15_BatchLayoutByHandCount ==
    lastCall.op = "process" =>
        LET n == Len(lastCall.frames)
            t == TypesOf(batch)
        IN IF n = 0 THEN batch = <<[type |-> "GESTURE_LABEL", label |-> "NONE"]>>
           ELSE IF n = 1
           THEN LET h == lastCall.frames[1]
                IN /\ t \in {<<"GESTURE_LABEL", "MODE", "MOVE", "ZOOM", "SPREAD", "SHAPE">>,
                             <<"GESTURE_LABEL", "MODE", "MOVE", "ZOOM", "SPREAD", "SCATTER",
                               "SHAPE">>}
                   /\ batch[2].mode = "SINGLE"
                   /\ batch[3].nx = h.center.x /\ batch[3].ny = h.center.y
                   /\ batch[4].value = 800 + h.size
           ELSE /\ t \in {<<"GESTURE_LABEL", "MODE", "ZOOM", "ROTATE">>,
                          <<"GESTURE_LABEL", "MODE", "ZOOM", "ROTATE", "CONVERGE">>,
                          <<"GESTURE_LABEL", "MODE", "ZOOM", "ROTATE", "SCATTER">>}
                /\ batch[1].label = "DUAL_HANDS"
                /\ batch[2].mode = "DUAL"

\* The second tick with one hand: ShakeScatter has returned a SCATTER, so the
\* batch has its seven events, SHAPE last.
C15_Witness ==
    /\ lastCall.op = "process"
    /\ ticks = 2
    /\ Len(lastCall.frames) = 1
    /\ lastCall.pbefore["ShakeScatter"].history # <<>>
    /\ Len(batch) = 7
    /\ lastCall.origin[6] = "ShakeScatter"
    /\ batch[7].type = "SHAPE"

\* C16: in a tick with exactly one hand ShapeByGesture returns exactly one
\* event, SHAPE, named HEART when the pinch of the frame is above 0.8, WAVE
\* when it is below 0.2 and SPHERE otherwise, 0.8 and 0.2 included; with any
\* other number of hands it returns nothing.  The answer follows from the
\* frame of the tick alone, whatever the ticks before it were.
C16_ShapeFromPinch ==
    lastCall.op = "process" =>
        LET out == EventsOf(batch, lastCall.origin, "ShapeByGesture")
        IN IF Len(lastCall.frames) # 1 THEN out = <<>>
           ELSE LET q == lastCall.frames[1].pinch
                IN out = <<[type |-> "SHAPE",
                            name |-> IF q > 800 THEN "HEART"
                                     ELSE IF q < 200 THEN "WAVE" ELSE "SPHERE"]>>

\* A pinch of exactly 0.8 right after a tick with a full pinch: SPHERE.
C16_Witness ==
    /\ lastCall.op = "process"
    /\ ticks = 2
    /\ Len(lastCall.frames) = 1
    /\ lastCall.frames[1].pinch = 800
    /\ lastCall.pbefore["GestureLabel"].pinchActive
    /\ EventsOf(batch, lastCall.origin, "ShapeByGesture")
           = <<[type |-> "SHAPE", name |-> "SPHERE"]>>

(***************************************************************************)
(* Properties of ParticleSystem                                            *)
(***************************************************************************)

\* C17: after any sequence of applyInteraction calls with dt >= 0 and
\* state.spread in [0, 1], scatter is in [0, 1], scatterVel in [0, 2] and
\* spread in [0, 1], whatever pulses the calls carried.
C17_DynamicsInRange ==
    /\ particles.scatter >= 0 /\ particles.scatter <= 10000
    /\ particles.scatterVel >= 0 /\ particles.scatterVel <= 20000
    /\ particles.spread >= 0 /\ particles.spread <= 10000

\* Three calls with a SCATTER pulse, the last with CONVERGE as well: the
\* impulse was cut at 2.0 before the last call, and scatter is above 0.
C17_Witness ==
    /\ lastCall.op = "applyInteraction"
    /\ ticks = 3
    /\ lastCall.pbefore.scatterVel + 14000 > 20000
    /\ state.scatter /\ state.converge
    /\ particles.scatter > 0
    /\ particles.scatterVel > 0

\* The tolerance of the comparison of two runs: 0.002.
Tolerance == 20

\* pan, zoom and spread of the two systems are within the tolerance.
Close(a, b) ==
    /\ Abs(a.panX - b.panX) <= Tolerance
    /\ Abs(a.panY - b.panY) <= Tolerance
    /\ Abs(a.zoom - b.zoom) <= Tolerance
    /\ Abs(a.spread - b.spread) <= Tolerance

\* C18: under an unchanging target and without pulses, the system stepped
\* with dt = 0.016 and the one stepped with dt = 0.1 have pan, zoom and
\* spread within the tolerance of each other whenever the same total time
\* has passed in both, and after 62 steps of the one and 10 of the other.
C18_FrameRateIndependent ==
    lastCall.op = "applyInteraction" =>
        ((lastCall.fine * 16 = lastCall.coarse * 100
             \/ (lastCall.fine = FineSteps /\ lastCall.coarse = CoarseSteps))
         => Close(particles, other))

\* 0.4 s into both runs (25 steps and 4 steps): the pan has still more than
\* 0.05 to go to its target in both.
C18_Witness ==
    /\ lastCall.op = "applyInteraction"
    /\ lastCall.fine = 25 /\ lastCall.coarse = 4
    /\ Abs(particles.panX - state.panX) > 500
    /\ Abs(other.panX - state.panX) > 500
    /\ Close(particles, other)

(***************************************************************************)
(* Properties of the engine when an update throws                          *)
(***************************************************************************)

\* The last call was process, returned or not.
ProcessCalled == lastCall.op \in {"process", "process throws"}

\* The plugins process invokes when none throws: the enabled ones, by phase.
ExpectedCalls ==
    LET of(phase) == SelectSeq(plugins, LAMBDA p : ~Skips(p, phase))
        all == of("before") \o of("main") \o of("after")
    IN [i \in DOMAIN all |-> all[i].name]

\* C19: a process call whose frames hold a hand with a landmark list of other
\* than 21 entries returns normally: no update throws, GestureLabel among
\* them, and every plugin of the tick is invoked.
C19_MalformedFrameRejected ==
    (ProcessCalled
       /\ \E i \in DOMAIN lastCall.frames : DOMAIN lastCall.frames[i].landmarks # 0..20)
    => /\ lastCall.threw = <<>>
       /\ lastCall.calls = ExpectedCalls

\* C20: when the update of a plugin throws during process, the other enabled
\* plugins are all invoked, in their order, and process returns their events.
C20_ThrowingPluginIsolated ==
    (ProcessCalled /\ lastCall.threw # <<>>) =>
        /\ lastCall.calls = ExpectedCalls
        /\ lastCall.op = "process"
        /\ \A i \in DOMAIN lastCall.origin : lastCall.origin[i] # lastCall.threw[1]

(***************************************************************************)
(* Properties of the plugin and the dynamics under any dt                  *)
(***************************************************************************)

\* C21: whatever dt is passed, the speeds ShakeScatter stores are those of a
\* dt of at least 1 ms (at most the diagonal of the unit square per ms), and
\* every lerp factor 1 - base^dt of applyInteraction lies in [0, 1], so that
\* the pan does not move away from its target.
C21_DegenerateDtFloored ==
    /\ lastCall.op = "ShakeScatter.update" =>
          \A i \in DOMAIN pstate["ShakeScatter"].history :
              pstate["ShakeScatter"].history[i] <= 1415 * 1000
    /\ lastCall.op = "applyInteraction" =>
          /\ \A c \in DecayBases :
                10000 - pow(c, lastCall.dt) >= 0 /\ 10000 - pow(c, lastCall.dt) <= 10000
          /\ Abs(particles.panX - state.panX) <= Abs(lastCall.pbefore.panX - state.panX)

(***************************************************************************)
(* Properties of the ParticleSystem and its buffers                        *)
(***************************************************************************)

\* applyInteraction has been called, whether it returned or not.
ApplyCalled == lastCall.op \in {"applyInteraction", "applyInteraction throws"}

C23_ListingReadOnly == plugins = SortPlugins(BuiltinPlugins)

(***************************************************************************)
(* Properties of the HandTracker                                           *)
(***************************************************************************)

\* The frame of a detected hand, compared without its tag, and the side a
\* frame sorts as.
Untagged(f) == [landmarks |-> f.landmarks, center |-> f.center, size |-> f.size,
                pinch |-> f.pinch]
SideOf(f) == IF f.handedness = <<"Right">> THEN "Right" ELSE "Left"

\* The hands of the detection that have 21 landmarks.
ValidHands(det) == SelectSeq(det, LAMBDA d : DOMAIN d.landmarks = 0..20)

\* Frame f is the frame of the detected hand d.
FrameOfHand(f, d) ==
    /\ f.landmarks = d.landmarks
    /\ f.handedness = (IF d.handed = "None" THEN <<>> ELSE <<d.handed>>)

\* C26: update returns at most 2 frames, one for each detected hand with 21
\* landmarks (none when throttled); no frame that sorts as Right is ahead of
\* one that sorts as Left, an untagged frame sorting as Left; frames of the
\* same side are in the order of their detection.
C26_FramesOrdered ==
    lastCall.op = "tracker.update" =>
        LET frames == lastCall.frames
            valid == ValidHands(lastCall.det)
        IN /\ Len(frames) <= 2
           /\ Len(frames) = (IF lastCall.throttled THEN 0 ELSE Len(valid))
           /\ \A i, j \in DOMAIN frames :
                 i < j => ~(SideOf(frames[i]) = "Right" /\ SideOf(frames[j]) = "Left")
           /\ \A i, j \in DOMAIN frames :
                 (i < j /\ SideOf(frames[i]) = SideOf(frames[j])) =>
                     \E a, b \in DOMAIN valid :
                         a < b /\ FrameOfHand(frames[i], valid[a])
                               /\ FrameOfHand(frames[j], valid[b])

\* The detector reports a Right hand ahead of an untagged one at another
\* place: update returns the untagged one first.
C26_Witness ==
    /\ lastCall.op = "tracker.update"
    /\ ~lastCall.throttled
    /\ Len(lastCall.det) = 2
    /\ lastCall.det[1].handed = "Right" /\ lastCall.det[2].handed = "None"
    /\ Len(lastCall.frames) = 2
    /\ lastCall.frames[1].handedness = <<>>
    /\ lastCall.frames[2].handedness = <<"Right">>
    /\ lastCall.frames[1].landmarks # lastCall.frames[2].landmarks

(***************************************************************************)
(* Properties of the main loop                                             *)
(***************************************************************************)

\* The position buffer and the dynamics scalars of a ParticleSystem.
Dynamics(ps) ==
    <<ps.pos, ps.panX, ps.panY, ps.zoom, ps.rotationZ, ps.spread, ps.scatter,
      ps.scatterVel>>

\* C24: in every step of the program the InteractionState changes only if
\* the step is InteractionCore.update (process, setStatus, applyInteraction
\* and every other call leave each field as it was), and the position
\* buffer and the dynamics scalars change only if the step is
\* applyInteraction (setColor, update and every other call leave them).
C24_SingleWriter ==
    [][/\ lastCall'.op # "update" => state' = state
       /\ lastCall'.op # "applyInteraction" => Dynamics(particles') = Dynamics(particles)]_vars

\* setColor is called after a tick in which the state and the dynamics have
\* moved away from their initial values, the scatter pulse being set in the
\* state applyInteraction was given.
C24_Witness ==
    /\ lastCall.op = "setColor"
    /\ particles.color # NewParticleSystem.color
    /\ Dynamics(particles) # Dynamics(NewParticleSystem)
    /\ particles.panX # 0
    /\ state # InitialState
    /\ loop.applied # <<>>
    /\ loop.applied[1].scatter
    /\ state.scatter

\* The calls of the tick so far, by name.
CallNames == [i \in DOMAIN loop.calls |-> loop.calls[i].name]

\* C25: the calls of a tick are a beginning of tracker.update, process,
\* update, setStatus, applyInteraction, render, each made once, and all six
\* are made when the tick is over; process and applyInteraction are given the
\* dt of the tick; the state applyInteraction is given is the state update
\* produced from the batch of the tick's process call; a tick is armed only
\* when none is running.
C25_TickOrder ==
    /\ CallNames = SubSeq(<<"tracker.update", "process", "update", "setStatus",
                            "applyInteraction", "render">>, 1, Len(loop.calls))
    /\ (loop.tick > 0 /\ ~loop.running) => Len(loop.calls) = 6
    /\ \A i \in DOMAIN loop.calls :
          loop.calls[i].name \in {"process", "applyInteraction"}
              => loop.calls[i].dt = <<loop.dt>>
    /\ (\E i \in DOMAIN loop.calls : loop.calls[i].name = "applyInteraction")
          => /\ loop.applied = <<state>>
             /\ batch = loop.events
             /\ state = update(before, loop.events)
    /\ ~(loop.armed /\ loop.running)

\* The second tick is over: the first one gave a SCATTER pulse, the second,
\* throttled, gave none, and applyInteraction was given a state without it.
C25_Witness ==
    /\ loop.tick = 2 /\ ~loop.running /\ loop.armed
    /\ Len(loop.calls) = 6
    /\ loop.dt = 16
    /\ before.scatter
    /\ ~state.scatter
    /\ loop.applied = <<state>>
    /\ particles.scatterVel > 0

(***************************************************************************)
(* Properties of the pulses in applyInteraction                            *)
(***************************************************************************)

\* scatterVel v and scatter x after the decay of v over dt, the accumulation
\* of v * dt into x, clamped to [0, 1], and the decay of x.
VelAfter(v, dt) == lerp(v, 0, 10000 - pow(800, dt))
ScatterAfter(x, v, dt) ==
    LET pushed == Max(0, Min(10000, x + (VelAfter(v, dt) * dt) \div 1000))
    IN lerp(pushed, 0, 10000 - pow(3500, dt))

\* C27: a call with state.scatter set leaves scatterVel at the decay over dt
\* of min(2.0, scatterVel + 1.4), the impulse added once and ahead of the
\* decay and of the accumulation into scatter; a call without it leaves
\* scatterVel at the decay of its old value, never above it nor below 0.
C27_ImpulseOnlyOnScatter ==
    lastCall.op = "applyInteraction" =>
        LET old == lastCall.pbefore
            x == IF state.converge THEN (old.scatter * 7) \div 10 ELSE old.scatter
        IN /\ state.scatter =>
                 /\ particles.scatterVel
                        = VelAfter(Min(20000, old.scatterVel + 14000), lastCall.dt)
                 /\ particles.scatter
                        = ScatterAfter(x, Min(20000, old.scatterVel + 14000), lastCall.dt)
           /\ ~state.scatter =>
                 /\ particles.scatterVel = VelAfter(old.scatterVel, lastCall.dt)
                 /\ particles.scatterVel <= old.scatterVel
                 /\ particles.scatterVel >= 0
                 /\ particles.scatter = ScatterAfter(x, old.scatterVel, lastCall.dt)

\* A call without the pulse, 0.016 s after calls with it: scatterVel, which
\* the pulses had raised to the cap, has come down and is still above 0.
C27_Witness ==
    /\ lastCall.op = "applyInteraction"
    /\ lastCall.dt = 16
    /\ ~state.scatter
    /\ lastCall.pbefore.scatterVel > 14000
    /\ particles.scatterVel < lastCall.pbefore.scatterVel
    /\ particles.scatterVel > 0
    /\ particles.scatter > lastCall.pbefore.scatter

\* C28: a call with state.converge set leaves spread at 0.88 times the
\* spread advanced towards state.spread in that call, and feeds 0.7 times
\* the old scatter into the scatter dynamics; a call without it leaves
\* spread at the advanced value and feeds the old scatter in unchanged.
C28_DampOnlyOnConverge ==
    lastCall.op = "applyInteraction" =>
        LET old == lastCall.pbefore
            advanced == lerp(old.spread, state.spread * 10, 10000 - pow(10, lastCall.dt))
            v == IF state.scatter THEN Min(20000, old.scatterVel + 14000)
                 ELSE old.scatterVel
        IN /\ state.converge =>
                 /\ particles.spread = (advanced * 88) \div 100
                 /\ particles.scatter = ScatterAfter((old.scatter * 7) \div 10, v, lastCall.dt)
           /\ ~state.converge =>
                 /\ particles.spread = advanced
                 /\ particles.scatter = ScatterAfter(old.scatter, v, lastCall.dt)

\* A converge call on a system with scatter above 0 and a spread on its way
\* to a target of 1, followed by a call without converge: the second call
\* raises the spread again.
C28_Witness ==
    /\ lastCall.op = "applyInteraction"
    /\ lastCall.dt = 16
    /\ ~state.converge /\ ~state.scatter
    /\ state.spread = 1000
    /\ lastCall.pbefore.scatter > 0
    /\ lastCall.pbefore.spread < 2500
    /\ particles.spread > lastCall.pbefore.spread

\* The point entry k of pos is blended towards by a call that returned:
\* entry k of the buffer of shape name, pushed along its direction by the
\* spread and the scatter the call left, scaled by the breathing of the call.
GoalOf(ps, name, breatheScale, k) ==
    ((ps.targets[name][k] + (DirOf(k) * ((ps.spread * 9) \div 10)) \div 1000
                          + (DirOf(k) * ((ps.scatter * 22) \div 10)) \div 1000)
        * breatheScale) \div 10000

\* |a - b|
Dist(a, b) == IF a >= b THEN a - b ELSE b - a

\* new is no further from g than old was and on the same side of it.
Towards(old, new, g) ==
    /\ Dist(new, g) <= Dist(old, g)
    /\ (old <= g => new <= g)
    /\ (old >= g => new >= g)

\* C29: a call of applyInteraction that returned has selected the buffer of
\* the state.shape it was given and has moved every entry of pos towards
\* the point derived from that buffer, whatever buffer was selected before;
\* no call of applyInteraction or setColor, returning or throwing, changes
\* count or any entry of a target buffer, and pos and every target buffer
\* hold count * 3 entries.
C29_TargetOfCallShape ==
    /\ Len(particles.pos) = particles.count * 3
    /\ \A n \in DOMAIN particles.targets :
          Len(particles.targets[n]) = particles.count * 3
    /\ (lastCall.op \in {"applyInteraction", "applyInteraction throws", "setColor"} =>
          /\ particles.count = lastCall.pbefore.count
          /\ particles.targets = lastCall.pbefore.targets)
    /\ (lastCall.op = "applyInteraction" =>
          /\ particles.currentTarget = <<state.shape>>
          /\ \A k \in DOMAIN particles.pos :
                Towards(lastCall.pbefore.pos[k], particles.pos[k],
                        GoalOf(particles, state.shape,
                               Breathe(state, lastCall.t), k)))

\* A call that changed the shape from SPHERE to HEART and moved the
\* particles, after the colour was set.
C29_Witness ==
    /\ lastCall.op = "applyInteraction"
    /\ state.shape = "HEART"
    /\ lastCall.pbefore.currentTarget = <<"SPHERE">>
    /\ lastCall.pbefore.color = "#ff0000"
    /\ particles.pos # lastCall.pbefore.pos
    /\ ticks >= 2

\* The mean of the absolute differences between consecutive samples of h:
\* their sum divided by their number, 0 when there is none.
MeanOfSteps(h) ==
    IF Len(h) < 2 THEN 0 ELSE SumOfSteps(h) \div (Len(h) - 1)

\* C30: after a call of ShakeScatterPlugin.update with one hand, the plugin
\* holds at most 8 samples, one more than before unless it held 8, and its
\* smoothed energy is the EMA with factor 0.35 (the first input passing
\* unchanged) of the mean of the absolute differences between the
\* consecutive samples it holds, 0 for a single sample.
C30_EnergyIsMeanOfSteps ==
    (lastCall.op = "ShakeScatter.update" /\ Len(lastCall.frames) = 1) =>
        LET st == pstate["ShakeScatter"]
        IN /\ Len(st.history) = Min(8, lastCall.kept + 1)
           /\ st.energyEma.inited
           /\ st.energyEma.value =
                 IF lastCall.emaBefore.inited
                 THEN (350 * MeanOfSteps(st.history)
                          + 650 * lastCall.emaBefore.value) \div 1000
                 ELSE MeanOfSteps(st.history)

\* The fingers of h that are extended, the thumb apart.
Fingers(h) ==
    {f \in {"index", "middle", "ring", "pinky"} :
        LET pip == CASE f = "index" -> 6 [] f = "middle" -> 10
                     [] f = "ring" -> 14 [] f = "pinky" -> 18
        IN isFingerExtended(h.landmarks, pip, pip + 1, pip + 2)}

\* h matches none of PINCH, OK_SIGN, FIST, V_SIGN and OPEN_PALM for a plugin
\* whose pinch gate is pinchActive.
Unmatched(pinchActive, h) ==
    /\ ~checkPinch(pinchActive, h.pinch)
    /\ ~("index" \in Fingers(h) /\ h.pinch > 280 /\ Cardinality(Fingers(h)) >= 3)
    /\ ~(Fingers(h) = {} /\ ~isThumbExtended(h.landmarks))
    /\ ~({"index", "middle"} \subseteq Fingers(h) /\ "ring" \notin Fingers(h)
           /\ ("pinky" \in Fingers(h) => h.pinch < 200))
    /\ ~(Cardinality(Fingers(h)) >= 3)

\* C31: a call of GestureLabelPlugin.update with one hand that matches none
\* of the five patterns classifies it as the label reported before the call,
\* and reports that same label again.
C31_UnmatchedKeepsLabel ==
    (/\ lastCall.op = "GestureLabel.update"
     /\ Len(lastCall.frames) = 1
     /\ Unmatched(lastCall.pbefore.pinchActive, lastCall.frames[1])) =>
        /\ lastCall.raw = lastCall.pbefore.lastGesture
        /\ pstate["GestureLabel"].lastGesture = lastCall.pbefore.lastGesture
        /\ batch = <<[type |-> "GESTURE_LABEL",
                      label |-> lastCall.pbefore.lastGesture]>>

\* An unmatched hand shown while OPEN_PALM is reported and another label is
\* being held as the candidate.
C31_Witness ==
    /\ lastCall.op = "GestureLabel.update"
    /\ Len(lastCall.frames) = 1
    /\ Unmatched(lastCall.pbefore.pinchActive, lastCall.frames[1])
    /\ lastCall.pbefore.lastGesture = "OPEN_PALM"
    /\ lastCall.pbefore.holdFrames > 0
    /\ batch = <<[type |-> "GESTURE_LABEL", label |-> "OPEN_PALM"]>>

\* C32: a call of GestureLabelPlugin.update with no hand or with two or more
\* hands sets the reported label to NONE resp. DUAL_HANDS and leaves the
\* candidate, the hold counter and the pinch gate as they were before it.
C32_CountTickKeepsDebounce ==
    (lastCall.op = "GestureLabel.update" /\ Len(lastCall.frames) # 1) =>
        LET st == pstate["GestureLabel"]
        IN /\ st.lastGesture =
                 (IF Len(lastCall.frames) = 0 THEN "NONE" ELSE "DUAL_HANDS")
           /\ st.candidate = lastCall.pbefore.candidate
           /\ st.holdFrames = lastCall.pbefore.holdFrames
           /\ st.pinchActive = lastCall.pbefore.pinchActive

\* A tick without a hand arriving while a candidate is being held and the
\* pinch gate is open.
C32_Witness ==
    /\ lastCall.op = "GestureLabel.update"
    /\ Len(lastCall.frames) = 0
    /\ lastCall.pbefore.holdFrames >= 2
    /\ lastCall.pbefore.pinchActive
    /\ lastCall.pbefore.lastGesture # "NONE"
    /\ pstate["GestureLabel"].holdFrames = lastCall.pbefore.holdFrames

\* C38: after every call of GestureLabelPlugin.update the hold counter is
\* 0, 1, 2 or 3, and after a call with one hand a counter above 0 comes with
\* a candidate that differs from the reported label.
C38_HoldCounterBelowThreshold ==
    lastCall.op = "GestureLabel.update" =>
        LET st == pstate["GestureLabel"]
        IN /\ st.holdFrames \in 0..3
           /\ (Len(lastCall.frames) = 1 /\ st.holdFrames > 0 =>
                  st.candidate # st.lastGesture)

\* The call in which the counter reached the threshold: the label switched
\* and the counter is back at 0.
C38_Witness ==
    /\ lastCall.op = "GestureLabel.update"
    /\ Len(lastCall.frames) = 1
    /\ lastCall.pbefore.holdFrames = 3
    /\ pstate["GestureLabel"].holdFrames = 0
    /\ pstate["GestureLabel"].lastGesture # lastCall.pbefore.lastGesture

\* C33: a call of ShakeScatterPlugin.update with no hand or with several
\* hands emits nothing and leaves prevX, prevY, the history, the smoothed
\* energy and the cooldown as they were; a call with one hand takes
\* max(dt, 0.001) off the cooldown, not below 0, or sets it to 1 when it
\* emits SCATTER; the cooldown is in [0, 1] after every call.
C33_CountTickKeepsShake ==
    lastCall.op = "ShakeScatter.update" =>
        LET st == pstate["ShakeScatter"]
        IN /\ st.cooldown >= 0 /\ st.cooldown <= 1000
           /\ (Len(lastCall.frames) # 1 =>
                  st = lastCall.pbefore /\ batch = <<>>)
           /\ (Len(lastCall.frames) = 1 =>
                  st.cooldown =
                     IF lastCall.fired THEN 1000
                     ELSE Max(0, lastCall.pbefore.cooldown - Max(lastCall.dt, 1)))

\* Two hands shown for a frame while the cooldown runs and samples are
\* held.
C33_Witness ==
    /\ lastCall.op = "ShakeScatter.update"
    /\ Len(lastCall.frames) = 2
    /\ lastCall.dt = 16
    /\ lastCall.pbefore.cooldown > 0
    /\ Len(lastCall.pbefore.history) >= 2
    /\ pstate["ShakeScatter"].cooldown = lastCall.pbefore.cooldown

\* The plugins that returned an event of type t in the last tick.
EmittersOf(t) == {lastCall.origin[k] : k \in {i \in DOMAIN batch : batch[i].type = t}}

\* C34: with the plugins of the repository, whichever of them are switched
\* off, state.scatter and state.converge are never both true; in a tick
\* CONVERGE comes from DualHand only, with two or more hands less than 0.12
\* apart, and SCATTER from DualHand with two or more hands more than 0.6
\* apart or from ShakeScatter with exactly one hand.
C34_PulsesExclusive ==
    /\ ~(state.scatter /\ state.converge)
    /\ (lastCall.op = "tick" =>
          /\ EmittersOf("CONVERGE") \subseteq {"DualHand"}
          /\ EmittersOf("SCATTER") \subseteq {"DualHand", "ShakeScatter"}
          /\ (HasType(batch, "CONVERGE") =>
                 Len(lastCall.frames) >= 2 /\ DistSq < 120 * 120)
          /\ ("DualHand" \in EmittersOf("SCATTER") =>
                 Len(lastCall.frames) >= 2 /\ DistSq > 600 * 600)
          /\ ("ShakeScatter" \in EmittersOf("SCATTER") => Len(lastCall.frames) = 1)
          /\ state.scatter = HasType(batch, "SCATTER")
          /\ state.converge = HasType(batch, "CONVERGE"))

\* A tick with the hands wide apart right after a tick with the hands
\* together: the converge pulse of the tick before is gone, scatter is set.
C34_Witness ==
    /\ lastCall.op = "tick"
    /\ Len(lastCall.frames) >= 2
    /\ before.converge /\ ~before.scatter
    /\ state.scatter /\ ~state.converge

\* C35: no plugin of the repository returns MODE NONE; state.mode is NONE
\* exactly as long as no tick has had a hand, and SINGLE or DUAL from the
\* first such tick on; a tick without a hand leaves state.mode as it was and
\* its gesture label is NONE.
C35_ModeNoneUntilFirstHand ==
    /\ \A k \in DOMAIN batch : batch[k].type = "MODE" => batch[k].mode # "NONE"
    /\ (lastCall.seen => state.mode \in {"SINGLE", "DUAL"})
    /\ (~lastCall.seen => state.mode = "NONE")
    /\ (lastCall.op = "tick" /\ lastCall.frames = <<>> =>
           state.mode = before.mode /\ state.gestureLabel = "NONE")

\* C35 as the code has it: no plugin of the repository returns MODE NONE;
\* state.mode is NONE exactly as long as no tick has had one hand with
\* SingleHandMove switched on or several hands with DualHand switched on,
\* and SINGLE or DUAL from the first such tick on; every other tick, those
\* without a hand among them, leaves state.mode as it was; the gesture label
\* of a tick without a hand is NONE when GestureLabel is switched on.
C35_ModeNoneUntilFirstModeEvent ==
    /\ \A k \in DOMAIN batch : batch[k].type = "MODE" => batch[k].mode # "NONE"
    /\ (lastCall.moded => state.mode \in {"SINGLE", "DUAL"})
    /\ (~lastCall.moded => state.mode = "NONE")
    /\ (lastCall.op = "tick" =>
          /\ (Len(lastCall.frames) = 1 /\ "SingleHandMove" \in lastCall.enabled =>
                 state.mode = "SINGLE")
          /\ (Len(lastCall.frames) >= 2 /\ "DualHand" \in lastCall.enabled =>
                 state.mode = "DUAL")
          /\ (~HasType(batch, "MODE") => state.mode = before.mode)
          /\ (lastCall.frames = <<>> =>
                 /\ ~HasType(batch, "MODE")
                 /\ ("GestureLabel" \in lastCall.enabled =>
                        state.gestureLabel = "NONE")))

\* A tick without a hand after a tick with two hands, everything switched
\* on: the mode is still DUAL and the label is NONE.
C35_Witness ==
    /\ lastCall.op = "tick"
    /\ lastCall.frames = <<>>
    /\ lastCall.enabled = SwitchPool
    /\ before.mode = "DUAL"
    /\ state.mode = "DUAL"
    /\ state.gestureLabel = "NONE"

\* C36: with the plugins of the repository, whichever of them are switched
\* off, state.shape is SPHERE, HEART or WAVE, a tick without exactly one hand
\* leaves it as it was, no batch holds an IDLE or a SHAKE_ENERGY event, and
\* state.stillness and state.shakeEnergy keep their initial 1 and 0.
C36_ShapeOfThreeStillnessFixed ==
    /\ state.shape \in {"SPHERE", "HEART", "WAVE"}
    /\ state.stillness = 1000
    /\ state.shakeEnergy = 0
    /\ ~HasType(batch, "IDLE") /\ ~HasType(batch, "SHAKE_ENERGY")
    /\ (lastCall.op = "tick" /\ Len(lastCall.frames) # 1 => state.shape = before.shape)
    /\ (lastCall.op = "tick" /\ state.shape # before.shape =>
           EmittersOf("SHAPE") = {"ShapeByGesture"})

\* A tick with two hands after a pinching hand has selected HEART: the shape
\* stays.
C36_Witness ==
    /\ lastCall.op = "tick"
    /\ Len(lastCall.frames) >= 2
    /\ before.shape = "HEART"
    /\ state.shape = "HEART"
    /\ particles.currentTarget = <<"HEART">>

====
